---- MODULE Spec2Model ----
(***************************************************************************)
(* Device links, device registration and the devices_kset ordering list    *)
(* of drivers/base/core.c.                                                 *)
(*                                                                         *)
(* Every function of core.c that changes the graph is one action; the      *)
(* functions that hold device_links_lock for their whole body are atomic.  *)
(* The driver-binding layer (drivers/base/dd.c: really_probe,              *)
(* __device_release_driver) is the caller of the device_links_* functions; *)
(* its position for each device is the variable drv.                       *)
(***************************************************************************)
EXTENDS Integers, Sequences, FiniteSets, TLC

\* Bounds of the model.
NDev == 3
\* Links created in one run, numbered in the order of their creation.
MaxLinks == 2
\* Probes started in one run.
MaxProbes == 3
\* Devices in the runs checked under fairness.
FairDev == 2

\* Devices of the runs that take device_add() step by step.
RegDev == 2
\* Threads of the runs that take the locks step by step.
NThread == 2
\* Links and probes of those runs.
LockLinks == 1
LockProbes == 1

Dev == 1..NDev
LinkId == 1..MaxLinks
NoDev == 0
NoLinkId == 0
Thread == 1..NThread
NoThread == 0

\* Link flags, include/linux/device.h (only the two that core.c branches on
\* for the link state machine).
DL_FLAG_STATELESS == "STATELESS"
DL_FLAG_AUTOREMOVE == "AUTOREMOVE"
FlagSets == SUBSET {DL_FLAG_STATELESS, DL_FLAG_AUTOREMOVE}
ValidFlagSets == {f \in FlagSets : ~(DL_FLAG_STATELESS \in f /\ DL_FLAG_AUTOREMOVE \in f)}

\* enum device_link_state
DL_STATE_NONE == "NONE"
DL_STATE_DORMANT == "DORMANT"
DL_STATE_AVAILABLE == "AVAILABLE"
DL_STATE_CONSUMER_PROBE == "CONSUMER_PROBE"
DL_STATE_ACTIVE == "ACTIVE"
DL_STATE_SUPPLIER_UNBIND == "SUPPLIER_UNBIND"

\* enum dl_dev_state
DL_DEV_NO_DRIVER == "NO_DRIVER"
DL_DEV_PROBING == "PROBING"
DL_DEV_DRIVER_BOUND == "DRIVER_BOUND"
DL_DEV_UNBINDING == "UNBINDING"

VARIABLES
    reg,        \* life of each struct device: none, init, sysfs (device_add()
                \* is past kobject_add()), pm (past device_pm_add()), added,
                \* del_klist, del_pm, del_links, del_kobj (device_del() is
                \* past klist_del(), device_pm_remove(), device_links_purge(),
                \* kobject_del()), del_done (device_del() has returned),
                \* deleted (the owner has put its reference), released
    parent,     \* dev->parent
    children,   \* dev->p->klist_children, in list order
    kref,       \* dev->kobj.kref
    dlstatus,   \* dev->links.status
    consumers,  \* dev->links.consumers: link ids in list order
    suppliers,  \* dev->links.suppliers: link ids in list order
    link,       \* struct device_link by id; status "FREE" when not allocated
    kset,       \* devices_kset->list, head first
    drv,        \* position of the driver-binding layer for each device: none,
                \* probing, bound, uc_start, uc_wait, uc_release, uc_released,
                \* releasing
    ucons,      \* the consumer device_links_unbind_consumers is releasing
    checked,    \* links moved to CONSUMER_PROBE by the probe in flight
    nlinks,     \* links created so far
    nprobes,    \* probes started so far
    last,       \* the last call and what it returned
    links_lock, \* the thread that holds device_links_lock, NoThread if none
    pm_lock,    \* the thread that holds dpm_list_mtx, NoThread if none
    pc,         \* for each thread, the function it runs and the step it is at
    readers,    \* threads inside a device_links_srcu read-side section
    srcu,       \* for each link, whether call_srcu() has queued its free and
                \* the read-side sections the grace period still waits for
    CONFIG_SRCU, \* the build: TRUE, a mutex and SRCU; FALSE, one rwsem
    shut        \* device_shutdown(): where its loop is, the device it took
                \* and the devices whose shutdown callbacks have run

vars == <<reg, parent, children, kref, dlstatus, consumers, suppliers, link,
          kset, drv, ucons, checked, nlinks, nprobes, last, links_lock,
          pm_lock, pc, readers, srcu, CONFIG_SRCU, shut>>

bind == <<drv, ucons, nprobes>>

\* The locks, the threads that take them step by step and the shutdown.
sync == <<links_lock, pm_lock, pc, readers, srcu, CONFIG_SRCU, shut>>

\* The devices, the links and the ordering list.
graph == <<reg, parent, children, kref, dlstatus, consumers, suppliers, link,
           kset, nlinks>>

\* A thread that runs none of the functions below.
Idle == [op |-> "idle", at |-> 0, seen |-> {}]

\* device_shutdown() has not been called.
NoShutdown == [state |-> "off", dev |-> NoDev, parent |-> NoDev, order |-> <<>>]

\* No free is queued for the link.
NoCallback == [queued |-> FALSE, wait |-> {}]

FreeLink == [consumer |-> NoDev, supplier |-> NoDev, flags |-> {}, status |-> "FREE"]

Call(op, dev, sup, ret) == [op |-> op, dev |-> dev, sup |-> sup, ret |-> ret]

\* ------------------------------------------------------------------------
\* Sequence helpers
\* ------------------------------------------------------------------------
RECURSIVE SeqRemove(_, _)
SeqRemove(s, x) ==
    IF s = <<>> THEN <<>>
    ELSE IF Head(s) = x THEN SeqRemove(Tail(s), x)
    ELSE <<Head(s)>> \o SeqRemove(Tail(s), x)

Range(s) == {s[i] : i \in 1..Len(s)}

Reverse(s) == [i \in 1..Len(s) |-> s[Len(s) + 1 - i]]

\* Position of x in s, 0 when absent.
IndexOf(s, x) ==
    IF x \in Range(s) THEN CHOOSE i \in 1..Len(s) : s[i] = x ELSE 0

\* ------------------------------------------------------------------------
\* Predicates of the headers
\* ------------------------------------------------------------------------
\* The struct device exists (allocated and device_initialize()d, not freed).
LifeStates == {"init", "sysfs", "pm", "added", "del_klist", "del_pm",
               "del_links", "del_kobj", "del_done", "deleted"}

Alive(d) == reg[d] \in LifeStates

\* dev->kobj.state_in_sysfs: set by kobject_add(), cleared by kobject_del()
device_is_registered(d) ==
    reg[d] \in {"sysfs", "pm", "added", "del_klist", "del_pm", "del_links"}

\* dev->power.in_dpm_list: set by device_pm_add(), cleared by
\* device_pm_remove()
device_pm_initialized(d) == reg[d] \in {"pm", "added", "del_klist"}

\* ------------------------------------------------------------------------
\* Reference counting
\* ------------------------------------------------------------------------
get_device(k, d) == IF d = NoDev THEN k ELSE [k EXCEPT ![d] = @ + 1]

put_device(k, d) == IF d = NoDev THEN k ELSE [k EXCEPT ![d] = @ - 1]

\* The release that runs one reference early.
device_release_at_one(r, k) ==
    [d \in Dev |-> IF r[d] \in LifeStates /\ k[d] <= 1
                   THEN "released" ELSE r[d]]

\* kobject_put() reaching zero runs device_release(): the struct is freed.
device_release(r, k) ==
    [d \in Dev |-> IF r[d] \in LifeStates /\ k[d] = 0
                   THEN "released" ELSE r[d]]

\* ------------------------------------------------------------------------
\* Ordering list
\* ------------------------------------------------------------------------
devices_kset_move_last(ks, dev) == Append(SeqRemove(ks, dev), dev)

\* ------------------------------------------------------------------------
\* Dependency check and reordering
\* ------------------------------------------------------------------------
\* The test that looks at dev and at its consumers and leaves out its
\* children.
device_is_dependent_links_only(dev, target) ==
    \/ dev = target
    \/ \E i \in 1..Len(consumers[dev]) : link[consumers[dev][i]].consumer = target

\* The check without the recursion: only dev, its children and its direct
\* consumers are compared with target.
device_is_dependent_direct(dev, target) ==
    \/ dev = target
    \/ \E i \in 1..Len(children[dev]) : children[dev][i] = target
    \/ \E i \in 1..Len(consumers[dev]) : link[consumers[dev][i]].consumer = target

RECURSIVE device_is_dependent(_, _)
device_is_dependent(dev, target) ==
    IF dev = target THEN TRUE
    ELSE IF \E i \in 1..Len(children[dev]) :
                device_is_dependent(children[dev][i], target) THEN TRUE
    ELSE \E i \in 1..Len(consumers[dev]) :
            \/ link[consumers[dev][i]].consumer = target
            \/ device_is_dependent(link[consumers[dev][i]].consumer, target)

\* The reordering that moves dev alone and leaves its children and
\* consumers where they are.
device_reorder_to_tail_alone(ks, dev) ==
    IF device_is_registered(dev) THEN devices_kset_move_last(ks, dev) ELSE ks

RECURSIVE device_reorder_to_tail(_, _)
RECURSIVE reorder_each(_, _)
device_reorder_to_tail(ks, dev) ==
    LET moved == IF device_is_registered(dev)
                 THEN devices_kset_move_last(ks, dev) ELSE ks
        kids == reorder_each(moved, children[dev])
    IN  reorder_each(kids, [i \in 1..Len(consumers[dev]) |->
                                link[consumers[dev][i]].consumer])

reorder_each(ks, devs) ==
    IF devs = <<>> THEN ks
    ELSE reorder_each(device_reorder_to_tail(ks, Head(devs)), Tail(devs))

\* ------------------------------------------------------------------------
\* Links
\* ------------------------------------------------------------------------
\* The link structures and the reference counts they hold, as one value that
\* the list walks below thread through their iterations.
Cur == [link |-> link, consumers |-> consumers, suppliers |-> suppliers,
        kref |-> kref]

\* The switch without its DL_DEV_UNBINDING case: a link to a supplier that is
\* unbinding starts DORMANT.
initial_link_state_no_unbinding(supplier, consumer, flags) ==
    IF DL_FLAG_STATELESS \in flags THEN DL_STATE_NONE
    ELSE CASE dlstatus[supplier] = DL_DEV_DRIVER_BOUND ->
                (CASE dlstatus[consumer] = DL_DEV_PROBING -> DL_STATE_CONSUMER_PROBE
                   [] dlstatus[consumer] = DL_DEV_DRIVER_BOUND -> DL_STATE_ACTIVE
                   [] OTHER -> DL_STATE_AVAILABLE)
           [] OTHER -> DL_STATE_DORMANT

\* The initial state of a new link (the nested switch of device_link_add).
initial_link_state(supplier, consumer, flags) ==
    IF DL_FLAG_STATELESS \in flags THEN DL_STATE_NONE
    ELSE CASE dlstatus[supplier] = DL_DEV_DRIVER_BOUND ->
                (CASE dlstatus[consumer] = DL_DEV_PROBING -> DL_STATE_CONSUMER_PROBE
                   [] dlstatus[consumer] = DL_DEV_DRIVER_BOUND -> DL_STATE_ACTIVE
                   [] OTHER -> DL_STATE_AVAILABLE)
           [] dlstatus[supplier] = DL_DEV_UNBINDING -> DL_STATE_SUPPLIER_UNBIND
           [] OTHER -> DL_STATE_DORMANT

\* The lookup left out: no existing link is ever found.
find_link_none(consumer, supplier) == NoLinkId

\* The link of supplier's consumers list whose consumer is the given one
\* (the list walk before kzalloc), NoLinkId when there is none.
find_link(consumer, supplier) ==
    LET hits == {n \in 1..Len(consumers[supplier]) :
                    link[consumers[supplier][n]].consumer = consumer}
    IN  IF hits = {} THEN NoLinkId
        ELSE consumers[supplier][CHOOSE n \in hits : \A m \in hits : n <= m]

\* The flag test left out.
flags_invalid_never(flags) == FALSE

\* The test of the flags at the head of device_link_add().
flags_invalid(flags) ==
    DL_FLAG_STATELESS \in flags /\ DL_FLAG_AUTOREMOVE \in flags

\* A call of device_link_add(); locked: it went through
\* device_links_write_lock() and device_pm_lock() (and through the unlocks
\* at the label out) before it returned.
LinkCall(consumer, supplier, ret, locked) ==
    [op |-> "device_link_add", dev |-> consumer, sup |-> supplier, ret |-> ret,
     locked |-> locked]

\* device_link_add(); oom: kzalloc() returns NULL.
device_link_add(consumer, supplier, flags, oom) ==
    /\ Alive(consumer)
    /\ Alive(supplier)
    /\ IF flags_invalid(flags)
       THEN /\ last' = LinkCall(consumer, supplier, NoLinkId, FALSE)
            /\ UNCHANGED <<link, consumers, suppliers, kref, kset, nlinks>>
       ELSE IF \/ ~device_pm_initialized(supplier)
               \/ device_is_dependent(consumer, supplier)
       THEN /\ last' = LinkCall(consumer, supplier, NoLinkId, TRUE)
            /\ UNCHANGED <<link, consumers, suppliers, kref, kset, nlinks>>
       ELSE IF find_link(consumer, supplier) # NoLinkId
       THEN /\ last' = LinkCall(consumer, supplier,
                                find_link(consumer, supplier), TRUE)
            /\ UNCHANGED <<link, consumers, suppliers, kref, kset, nlinks>>
       ELSE IF oom
       THEN /\ last' = LinkCall(consumer, supplier, NoLinkId, TRUE)
            /\ UNCHANGED <<link, consumers, suppliers, kref, kset, nlinks>>
       ELSE /\ nlinks < MaxLinks
            /\ nlinks' = nlinks + 1
            /\ LET id == nlinks + 1
               IN  /\ kref' = get_device(get_device(kref, supplier), consumer)
                   /\ link' = [link EXCEPT ![id] =
                                [consumer |-> consumer, supplier |-> supplier,
                                 flags |-> flags,
                                 status |-> initial_link_state(supplier, consumer, flags)]]
                   /\ kset' = device_reorder_to_tail(kset, consumer)
                   /\ consumers' = [consumers EXCEPT ![supplier] = Append(@, id)]
                   /\ suppliers' = [suppliers EXCEPT ![consumer] = Append(@, id)]
                   /\ last' = LinkCall(consumer, supplier, id, TRUE)
    /\ UNCHANGED <<reg, parent, children, dlstatus>>

\* The free that drops only the reference to the consumer.
device_link_free_consumer_only(g, id) ==
    [g EXCEPT !.kref = put_device(@, g.link[id].consumer),
              !.link = [@ EXCEPT ![id] = FreeLink]]

\* device_link_free(): both endpoint references are dropped, the link freed.
device_link_free(g, id) ==
    [g EXCEPT !.kref = put_device(put_device(@, g.link[id].consumer),
                                  g.link[id].supplier),
              !.link = [@ EXCEPT ![id] = FreeLink]]

\* The deletion that leaves out the list_del of s_node: the link stays in
\* the consumers list of its supplier.
__device_link_del_keeps_s_node(g, id) ==
    device_link_free(
        [g EXCEPT !.suppliers = [@ EXCEPT ![g.link[id].consumer] = SeqRemove(@, id)]],
        id)

\* __device_link_del(): the link leaves both lists and is freed.
__device_link_del(g, id) ==
    device_link_free(
        [g EXCEPT !.consumers = [@ EXCEPT ![g.link[id].supplier] = SeqRemove(@, id)],
                  !.suppliers = [@ EXCEPT ![g.link[id].consumer] = SeqRemove(@, id)]],
        id)

device_link_del(id) ==
    /\ link[id].status # "FREE"
    /\ LET g == __device_link_del(Cur, id)
       IN  /\ link' = g.link
           /\ consumers' = g.consumers
           /\ suppliers' = g.suppliers
           /\ kref' = g.kref
           /\ reg' = device_release(reg, g.kref)
    /\ last' = Call("device_link_del", link[id].consumer, link[id].supplier, id)
    /\ UNCHANGED <<parent, children, dlstatus, kset, nlinks>>

\* ------------------------------------------------------------------------
\* Link state machine
\* ------------------------------------------------------------------------
\* device_links_missing_supplier(): every link of dev's suppliers list that
\* is in CONSUMER_PROBE goes back to AVAILABLE.
RECURSIVE missing_each(_, _)
missing_each(L, ids) ==
    IF ids = <<>> THEN L
    ELSE missing_each(
            IF L[Head(ids)].status = DL_STATE_CONSUMER_PROBE
            THEN [L EXCEPT ![Head(ids)].status = DL_STATE_AVAILABLE] ELSE L,
            Tail(ids))

\* The rollback left out.
device_links_missing_supplier_none(L, dev) == L

device_links_missing_supplier(L, dev) == missing_each(L, suppliers[dev])

\* The walk without the test of DL_FLAG_STATELESS.
RECURSIVE check_each_all(_, _, _)
check_each_all(L, dev, ids) ==
    IF ids = <<>> THEN [L |-> L, ret |-> 0]
    ELSE IF L[Head(ids)].status # DL_STATE_AVAILABLE
    THEN [L |-> missing_each(L, suppliers[dev]), ret |-> -517]
    ELSE check_each_all([L EXCEPT ![Head(ids)].status = DL_STATE_CONSUMER_PROBE],
                        dev, Tail(ids))

\* The list walk of device_links_check_suppliers() from the link at the head
\* of ids on: the link table it leaves and the value it returns.
RECURSIVE check_each(_, _, _)
check_each(L, dev, ids) ==
    IF ids = <<>> THEN [L |-> L, ret |-> 0]
    ELSE IF DL_FLAG_STATELESS \in L[Head(ids)].flags
    THEN check_each(L, dev, Tail(ids))
    ELSE IF L[Head(ids)].status # DL_STATE_AVAILABLE
    THEN [L |-> device_links_missing_supplier(L, dev), ret |-> -517]
    ELSE check_each([L EXCEPT ![Head(ids)].status = DL_STATE_CONSUMER_PROBE],
                    dev, Tail(ids))

device_links_check_suppliers(dev) ==
    /\ Alive(dev)
    /\ LET r == check_each(link, dev, suppliers[dev])
       IN  /\ link' = r.L
           /\ last' = Call("device_links_check_suppliers", dev, NoDev, r.ret)
    /\ dlstatus' = [dlstatus EXCEPT ![dev] = DL_DEV_PROBING]
    /\ UNCHANGED <<reg, parent, children, kset, kref, consumers, suppliers, nlinks>>

\* The walk without the test of DL_FLAG_STATELESS.
RECURSIVE set_each_all(_, _, _)
set_each_all(L, ids, st) ==
    IF ids = <<>> THEN L
    ELSE set_each_all([L EXCEPT ![Head(ids)].status = st], Tail(ids), st)

\* A list walk that writes one status to every link that is not stateless.
RECURSIVE set_each(_, _, _)
set_each(L, ids, st) ==
    IF ids = <<>> THEN L
    ELSE set_each(
            IF DL_FLAG_STATELESS \in L[Head(ids)].flags THEN L
            ELSE [L EXCEPT ![Head(ids)].status = st],
            Tail(ids), st)

\* The function without its second loop: the links to suppliers stay as
\* they are.
device_links_driver_bound_consumers_only(dev) ==
    /\ Alive(dev)
    /\ link' = set_each(link, consumers[dev], DL_STATE_AVAILABLE)
    /\ dlstatus' = [dlstatus EXCEPT ![dev] = DL_DEV_DRIVER_BOUND]
    /\ last' = Call("device_links_driver_bound", dev, NoDev, 0)
    /\ UNCHANGED <<reg, parent, children, kset, kref, consumers, suppliers, nlinks>>

device_links_driver_bound(dev) ==
    /\ Alive(dev)
    /\ link' = set_each(set_each(link, consumers[dev], DL_STATE_AVAILABLE),
                        suppliers[dev], DL_STATE_ACTIVE)
    /\ dlstatus' = [dlstatus EXCEPT ![dev] = DL_DEV_DRIVER_BOUND]
    /\ last' = Call("device_links_driver_bound", dev, NoDev, 0)
    /\ UNCHANGED <<reg, parent, children, kset, kref, consumers, suppliers, nlinks>>

\* The walk without the test for SUPPLIER_UNBIND: every link that is kept
\* becomes AVAILABLE.
RECURSIVE no_driver_each_always(_, _)
no_driver_each_always(g, ids) ==
    IF ids = <<>> THEN g
    ELSE LET id == Head(ids)
         IN  no_driver_each_always(
                IF DL_FLAG_STATELESS \in g.link[id].flags THEN g
                ELSE IF DL_FLAG_AUTOREMOVE \in g.link[id].flags
                THEN __device_link_del(g, id)
                ELSE [g EXCEPT !.link = [@ EXCEPT ![id].status = DL_STATE_AVAILABLE]],
                Tail(ids))

\* The reverse walk of __device_links_no_driver() over dev's suppliers list.
RECURSIVE no_driver_each(_, _)
no_driver_each(g, ids) ==
    IF ids = <<>> THEN g
    ELSE LET id == Head(ids)
         IN  no_driver_each(
                IF DL_FLAG_STATELESS \in g.link[id].flags THEN g
                ELSE IF DL_FLAG_AUTOREMOVE \in g.link[id].flags
                THEN __device_link_del(g, id)
                ELSE IF g.link[id].status # DL_STATE_SUPPLIER_UNBIND
                THEN [g EXCEPT !.link = [@ EXCEPT ![id].status = DL_STATE_AVAILABLE]]
                ELSE g,
                Tail(ids))

__device_links_no_driver(g, dev) == no_driver_each(g, Reverse(g.suppliers[dev]))

device_links_no_driver(dev) ==
    /\ Alive(dev)
    /\ LET g == __device_links_no_driver(Cur, dev)
       IN  /\ link' = g.link
           /\ consumers' = g.consumers
           /\ suppliers' = g.suppliers
           /\ kref' = g.kref
           /\ reg' = device_release(reg, g.kref)
    /\ dlstatus' = [dlstatus EXCEPT ![dev] = DL_DEV_NO_DRIVER]
    /\ last' = Call("device_links_no_driver", dev, NoDev, 0)
    /\ UNCHANGED <<parent, children, kset, nlinks>>

device_links_driver_cleanup(dev) ==
    /\ Alive(dev)
    /\ LET g0 == [Cur EXCEPT !.link = set_each(link, consumers[dev], DL_STATE_DORMANT)]
           g == __device_links_no_driver(g0, dev)
       IN  /\ link' = g.link
           /\ consumers' = g.consumers
           /\ suppliers' = g.suppliers
           /\ kref' = g.kref
           /\ reg' = device_release(reg, g.kref)
    /\ dlstatus' = [dlstatus EXCEPT ![dev] = DL_DEV_NO_DRIVER]
    /\ last' = Call("device_links_driver_cleanup", dev, NoDev, 0)
    /\ UNCHANGED <<parent, children, kset, nlinks>>

\* The walk that takes only ACTIVE links as busy.
RECURSIVE busy_each_active_only(_, _)
busy_each_active_only(L, ids) ==
    IF ids = <<>> THEN [L |-> L, ret |-> 0]
    ELSE IF DL_FLAG_STATELESS \in L[Head(ids)].flags
    THEN busy_each_active_only(L, Tail(ids))
    ELSE IF L[Head(ids)].status = DL_STATE_ACTIVE
    THEN [L |-> L, ret |-> 1]
    ELSE busy_each_active_only(
            [L EXCEPT ![Head(ids)].status = DL_STATE_SUPPLIER_UNBIND], Tail(ids))

\* The walk without the break: it goes on to the end of the list after it
\* has found a busy link.
RECURSIVE busy_each_no_break(_, _)
busy_each_no_break(L, ids) ==
    IF ids = <<>> THEN [L |-> L, ret |-> 0]
    ELSE IF DL_FLAG_STATELESS \in L[Head(ids)].flags
    THEN busy_each_no_break(L, Tail(ids))
    ELSE IF \/ L[Head(ids)].status = DL_STATE_CONSUMER_PROBE
            \/ L[Head(ids)].status = DL_STATE_ACTIVE
    THEN [L |-> busy_each_no_break(L, Tail(ids)).L, ret |-> 1]
    ELSE busy_each_no_break(
            [L EXCEPT ![Head(ids)].status = DL_STATE_SUPPLIER_UNBIND], Tail(ids))

\* The list walk of device_links_busy(): ret is 1 for true, 0 for false.
RECURSIVE busy_each(_, _)
busy_each(L, ids) ==
    IF ids = <<>> THEN [L |-> L, ret |-> 0]
    ELSE IF DL_FLAG_STATELESS \in L[Head(ids)].flags
    THEN busy_each(L, Tail(ids))
    ELSE IF \/ L[Head(ids)].status = DL_STATE_CONSUMER_PROBE
            \/ L[Head(ids)].status = DL_STATE_ACTIVE
    THEN [L |-> L, ret |-> 1]
    ELSE busy_each([L EXCEPT ![Head(ids)].status = DL_STATE_SUPPLIER_UNBIND],
                   Tail(ids))

device_links_busy(dev) ==
    /\ Alive(dev)
    /\ LET r == busy_each(link, consumers[dev])
       IN  /\ link' = r.L
           /\ last' = Call("device_links_busy", dev, NoDev, r.ret)
    /\ dlstatus' = [dlstatus EXCEPT ![dev] = DL_DEV_UNBINDING]
    /\ UNCHANGED <<reg, parent, children, kset, kref, consumers, suppliers, nlinks>>

\* The pass that steps over a link in CONSUMER_PROBE instead of waiting for
\* the probe.
RECURSIVE unbind_each_no_wait(_, _)
unbind_each_no_wait(L, ids) ==
    IF ids = <<>> THEN [L |-> L, out |-> "done", cons |-> NoDev]
    ELSE IF DL_FLAG_STATELESS \in L[Head(ids)].flags
    THEN unbind_each_no_wait(L, Tail(ids))
    ELSE IF L[Head(ids)].status = DL_STATE_CONSUMER_PROBE
    THEN unbind_each_no_wait(L, Tail(ids))
    ELSE IF L[Head(ids)].status = DL_STATE_ACTIVE
    THEN [L |-> [L EXCEPT ![Head(ids)].status = DL_STATE_SUPPLIER_UNBIND],
          out |-> "release", cons |-> L[Head(ids)].consumer]
    ELSE unbind_each_no_wait(
            [L EXCEPT ![Head(ids)].status = DL_STATE_SUPPLIER_UNBIND], Tail(ids))

\* One pass of device_links_unbind_consumers() from the label start to the
\* point where it drops the lock: out is "wait" (a consumer is probing),
\* "release" (the driver of consumer cons is to be removed) or "done".
RECURSIVE unbind_each(_, _)
unbind_each(L, ids) ==
    IF ids = <<>> THEN [L |-> L, out |-> "done", cons |-> NoDev]
    ELSE IF DL_FLAG_STATELESS \in L[Head(ids)].flags
    THEN unbind_each(L, Tail(ids))
    ELSE IF L[Head(ids)].status = DL_STATE_CONSUMER_PROBE
    THEN [L |-> L, out |-> "wait", cons |-> NoDev]
    ELSE IF L[Head(ids)].status = DL_STATE_ACTIVE
    THEN [L |-> [L EXCEPT ![Head(ids)].status = DL_STATE_SUPPLIER_UNBIND],
          out |-> "release", cons |-> L[Head(ids)].consumer]
    ELSE unbind_each([L EXCEPT ![Head(ids)].status = DL_STATE_SUPPLIER_UNBIND],
                     Tail(ids))

device_links_unbind_consumers(dev) ==
    /\ Alive(dev)
    /\ LET r == unbind_each(link, consumers[dev])
       IN  /\ link' = r.L
           \* get_device(consumer) before the lock is dropped
           /\ kref' = get_device(kref, r.cons)
           /\ last' = Call("device_links_unbind_consumers", dev, r.cons,
                           CASE r.out = "done" -> 0
                             [] r.out = "wait" -> 1
                             [] r.out = "release" -> 2)
    /\ UNCHANGED <<reg, parent, children, kset, dlstatus, consumers, suppliers, nlinks>>

\* put_device(consumer) after device_release_driver_internal() has returned.
unbind_consumers_put(dev, cons) ==
    /\ kref' = put_device(kref, cons)
    /\ reg' = device_release(reg, kref')
    /\ last' = Call("device_links_unbind_consumers", dev, cons, 3)
    /\ UNCHANGED <<parent, children, kset, dlstatus, consumers, suppliers, link,
                   nlinks>>

\* ------------------------------------------------------------------------
\* Initial state: no struct device exists yet.
\* ------------------------------------------------------------------------
InitState ==
    /\ reg = [d \in Dev |-> "none"]
    /\ parent = [d \in Dev |-> NoDev]
    /\ children = [d \in Dev |-> <<>>]
    /\ kref = [d \in Dev |-> 0]
    /\ dlstatus = [d \in Dev |-> DL_DEV_NO_DRIVER]
    /\ consumers = [d \in Dev |-> <<>>]
    /\ suppliers = [d \in Dev |-> <<>>]
    /\ link = [i \in LinkId |-> FreeLink]
    /\ kset = <<>>
    /\ drv = [d \in Dev |-> "none"]
    /\ ucons = [d \in Dev |-> NoDev]
    /\ checked = [d \in Dev |-> {}]
    /\ nlinks = 0
    /\ nprobes = 0
    /\ last = Call("init", NoDev, NoDev, 0)
    /\ links_lock = NoThread
    /\ pm_lock = NoThread
    /\ pc = [t \in Thread |-> Idle]
    /\ readers = {}
    /\ srcu = [i \in LinkId |-> NoCallback]
    /\ shut = NoShutdown

\* The runs that take no lock step by step never read the build option.
Init == InitState /\ CONFIG_SRCU = TRUE

\* Either build of the lock helpers.
InitLock == InitState /\ CONFIG_SRCU \in BOOLEAN

\* ------------------------------------------------------------------------
\* Registration
\* ------------------------------------------------------------------------
\* device_initialize(): the next struct device is set up by its owner, who
\* holds the first reference.
device_initialize(dev) ==
    /\ reg[dev] = "none"
    /\ \A e \in Dev : e < dev => reg[e] # "none"
    /\ reg' = [reg EXCEPT ![dev] = "init"]
    /\ kref' = [kref EXCEPT ![dev] = 1]
    /\ dlstatus' = [dlstatus EXCEPT ![dev] = DL_DEV_NO_DRIVER]
    /\ consumers' = [consumers EXCEPT ![dev] = <<>>]
    /\ suppliers' = [suppliers EXCEPT ![dev] = <<>>]
    /\ last' = Call("device_initialize", dev, NoDev, 0)
    /\ UNCHANGED <<parent, children, link, kset, nlinks>>

\* The registration that leaves out get_device(dev->parent).
device_add_no_parent_ref(dev, par, named, fails) ==
    /\ reg[dev] = "init"
    /\ par # dev
    /\ par # NoDev => reg[par] = "added"
    /\ IF ~named
       THEN /\ last' = Call("device_add", dev, NoDev, -22)
            /\ UNCHANGED <<reg, parent, children, kref, kset>>
       ELSE IF fails
       THEN /\ last' = Call("device_add", dev, NoDev, -12)
            /\ UNCHANGED <<reg, parent, children, kref, kset>>
       ELSE /\ parent' = [parent EXCEPT ![dev] = par]
            /\ kref' = IF par = NoDev THEN kref ELSE get_device(kref, dev)
            /\ kset' = Append(kset, dev)
            /\ reg' = [reg EXCEPT ![dev] = "added"]
            /\ children' = IF par = NoDev THEN children
                           ELSE [children EXCEPT ![par] = Append(@, dev)]
            /\ last' = Call("device_add", dev, par, 0)
    /\ UNCHANGED <<dlstatus, consumers, suppliers, link, nlinks>>

\* device_add() with dev->parent = par.  named: dev_name() resolves;
\* fails: a later step (kobject_add, sysfs, bus_add_device, ...) reports an
\* error and the function unwinds.
device_add(dev, par, named, fails) ==
    /\ reg[dev] = "init"
    /\ par # dev
    /\ par # NoDev => reg[par] = "added"
    /\ IF ~named
       THEN /\ last' = Call("device_add", dev, NoDev, -22)
            /\ UNCHANGED <<reg, parent, children, kref, kset>>
       ELSE IF fails
       THEN \* get_device(parent) ... put_device(parent); kobject_del()
            /\ last' = Call("device_add", dev, NoDev, -12)
            /\ UNCHANGED <<reg, parent, children, kref, kset>>
       ELSE /\ parent' = [parent EXCEPT ![dev] = par]
            \* get_device(parent); klist_add_tail() to the parent's list takes
            \* a reference on dev (klist_children_get)
            /\ kref' = IF par = NoDev THEN kref
                       ELSE get_device(get_device(kref, par), dev)
            \* kobject_add() joins devices_kset at the tail
            /\ kset' = Append(kset, dev)
            /\ reg' = [reg EXCEPT ![dev] = "added"]
            /\ children' = IF par = NoDev THEN children
                           ELSE [children EXCEPT ![par] = Append(@, dev)]
            /\ last' = Call("device_add", dev, par, 0)
    /\ UNCHANGED <<dlstatus, consumers, suppliers, link, nlinks>>

\* device_add() step by step, for the runs in which other calls come
\* between its steps.  First part: up to kobject_add(), which joins
\* devices_kset at the tail.
device_add_kobject(dev, par, named) ==
    /\ reg[dev] = "init"
    /\ par # dev
    /\ par # NoDev => reg[par] = "added"
    /\ IF ~named
       THEN /\ last' = Call("device_add", dev, NoDev, -22)
            /\ UNCHANGED <<reg, parent, kref, kset>>
       ELSE /\ parent' = [parent EXCEPT ![dev] = par]
            \* dev = get_device(dev); parent = get_device(dev->parent)
            /\ kref' = get_device(get_device(kref, dev), par)
            /\ kset' = Append(kset, dev)
            /\ reg' = [reg EXCEPT ![dev] = "sysfs"]
            /\ last' = Call("kobject_add", dev, par, 0)
    /\ UNCHANGED <<children, dlstatus, consumers, suppliers, link, nlinks>>

\* Second part: the sysfs files, bus_add_device() and device_pm_add().
device_add_pm(dev) ==
    /\ reg[dev] = "sysfs"
    /\ reg' = [reg EXCEPT ![dev] = "pm"]
    /\ last' = Call("device_pm_add", dev, parent[dev], 0)
    /\ UNCHANGED <<parent, children, kref, kset, dlstatus, consumers,
                   suppliers, link, nlinks>>

\* Last part: the uevent, bus_probe_device() and klist_add_tail() to the
\* parent's klist_children.
device_add_children(dev) ==
    /\ reg[dev] = "pm"
    /\ reg' = [reg EXCEPT ![dev] = "added"]
    /\ children' = IF parent[dev] = NoDev THEN children
                   ELSE [children EXCEPT ![parent[dev]] = Append(@, dev)]
    \* klist_add_tail() takes a reference on dev; done: put_device(dev)
    /\ kref' = IF parent[dev] = NoDev THEN put_device(kref, dev) ELSE kref
    /\ last' = Call("device_add", dev, parent[dev], 0)
    /\ UNCHANGED <<parent, kset, dlstatus, consumers, suppliers, link, nlinks>>

\* The unwinding that leaves out put_device(parent).
device_add_unwind_keeps_parent(dev) ==
    /\ reg[dev] \in {"sysfs", "pm"}
    /\ kset' = SeqRemove(kset, dev)
    /\ kref' = put_device(kref, dev)
    /\ reg' = device_release([reg EXCEPT ![dev] = "init"], kref')
    /\ parent' = [parent EXCEPT ![dev] = NoDev]
    /\ last' = Call("device_add", dev, parent[dev], -12)
    /\ UNCHANGED <<children, dlstatus, consumers, suppliers, link, nlinks>>

\* A step after kobject_add() fails: the labels SysEntryError down to
\* parent_error (device_pm_remove() if it was added, kobject_del(),
\* put_device(parent)).
device_add_unwind(dev) ==
    /\ reg[dev] \in {"sysfs", "pm"}
    /\ kset' = SeqRemove(kset, dev)
    /\ kref' = put_device(put_device(kref, parent[dev]), dev)
    /\ reg' = device_release([reg EXCEPT ![dev] = "init"], kref')
    /\ parent' = [parent EXCEPT ![dev] = NoDev]
    /\ last' = Call("device_add", dev, parent[dev], -12)
    /\ UNCHANGED <<children, dlstatus, consumers, suppliers, link, nlinks>>

RECURSIVE purge_each(_, _)
purge_each(g, ids) ==
    IF ids = <<>> THEN g
    ELSE purge_each(__device_link_del(g, Head(ids)), Tail(ids))

\* The purge that walks only the suppliers list.
device_links_purge_suppliers_only(g, dev) ==
    purge_each(g, Reverse(g.suppliers[dev]))

\* device_links_purge(): supplier links, then consumer links, each list
\* walked in reverse.
device_links_purge(g, dev) ==
    LET g1 == purge_each(g, Reverse(g.suppliers[dev]))
    IN  purge_each(g1, Reverse(g1.consumers[dev]))

\* device_unregister(): device_del() followed by the owner's put_device().
\* The bus has released the driver before the links are purged
\* (bus_remove_device), so no driver is bound or probing.
device_unregister(dev) ==
    /\ reg[dev] = "added"
    /\ drv[dev] = "none"
    /\ LET par == parent[dev]
           \* klist_del(&dev->p->knode_parent) drops the list's reference
           k1 == IF par = NoDev THEN kref ELSE put_device(kref, dev)
           g == device_links_purge([Cur EXCEPT !.kref = k1], dev)
           \* put_device(parent); put_device(dev)
           k2 == put_device(put_device(g.kref, par), dev)
       IN  /\ children' = IF par = NoDev THEN children
                          ELSE [children EXCEPT ![par] = SeqRemove(@, dev)]
           /\ link' = g.link
           /\ consumers' = g.consumers
           /\ suppliers' = g.suppliers
           \* kobject_del() leaves devices_kset
           /\ kset' = SeqRemove(kset, dev)
           /\ kref' = k2
           /\ reg' = device_release([reg EXCEPT ![dev] = "deleted"], k2)
    /\ last' = Call("device_unregister", dev, NoDev, 0)
    /\ UNCHANGED <<parent, dlstatus, nlinks>>

\* device_del() step by step.  First part: klist_del() takes dev out of the
\* parent's klist_children and drops the list's reference.
device_del_klist(dev) ==
    /\ reg[dev] = "added"
    /\ drv[dev] = "none"
    /\ reg' = [reg EXCEPT ![dev] = "del_klist"]
    /\ children' = IF parent[dev] = NoDev THEN children
                   ELSE [children EXCEPT ![parent[dev]] = SeqRemove(@, dev)]
    /\ kref' = IF parent[dev] = NoDev THEN kref ELSE put_device(kref, dev)
    /\ last' = Call("klist_del", dev, parent[dev], 0)
    /\ UNCHANGED <<parent, dlstatus, consumers, suppliers, link, kset, nlinks>>

\* bus_remove_device() and device_pm_remove().
device_del_pm(dev) ==
    /\ reg[dev] = "del_klist"
    /\ reg' = [reg EXCEPT ![dev] = "del_pm"]
    /\ last' = Call("device_pm_remove", dev, parent[dev], 0)
    /\ UNCHANGED <<parent, children, kref, dlstatus, consumers, suppliers,
                   link, kset, nlinks>>

\* device_links_purge(), under device_links_lock.
device_del_purge(dev) ==
    /\ reg[dev] = "del_pm"
    /\ LET g == device_links_purge(Cur, dev)
       IN  /\ link' = g.link
           /\ consumers' = g.consumers
           /\ suppliers' = g.suppliers
           /\ kref' = g.kref
           /\ reg' = device_release([reg EXCEPT ![dev] = "del_links"], g.kref)
    /\ last' = Call("device_links_purge", dev, parent[dev], 0)
    /\ UNCHANGED <<parent, children, dlstatus, kset, nlinks>>

\* kobject_del(): dev leaves devices_kset.
device_del_kobject(dev) ==
    /\ reg[dev] = "del_links"
    /\ reg' = [reg EXCEPT ![dev] = "del_kobj"]
    /\ kset' = SeqRemove(kset, dev)
    /\ last' = Call("kobject_del", dev, parent[dev], 0)
    /\ UNCHANGED <<parent, children, kref, dlstatus, consumers, suppliers,
                   link, nlinks>>

\* put_device(parent): device_del() returns.
device_del_put_parent(dev) ==
    /\ reg[dev] = "del_kobj"
    /\ kref' = put_device(kref, parent[dev])
    /\ reg' = device_release([reg EXCEPT ![dev] = "del_done"], kref')
    /\ last' = Call("device_del", dev, parent[dev], 0)
    /\ UNCHANGED <<parent, children, dlstatus, consumers, suppliers, link,
                   kset, nlinks>>

\* The put_device(dev) that ends device_unregister().
device_unregister_put(dev) ==
    /\ reg[dev] = "del_done"
    /\ kref' = put_device(kref, dev)
    /\ reg' = device_release([reg EXCEPT ![dev] = "deleted"], kref')
    /\ last' = Call("device_unregister", dev, NoDev, 0)
    /\ UNCHANGED <<parent, children, dlstatus, consumers, suppliers, link,
                   kset, nlinks>>

\* The owner of a device that is not registered gives up its reference.
put_device_owner(dev) ==
    /\ reg[dev] = "init"
    /\ kref' = put_device(kref, dev)
    /\ reg' = device_release([reg EXCEPT ![dev] = "deleted"], kref')
    /\ last' = Call("put_device", dev, NoDev, 0)
    /\ UNCHANGED <<parent, children, dlstatus, consumers, suppliers, link, kset,
                   nlinks>>

\* History of the probe in flight: links that were freed drop out.
KeepChecked ==
    checked' = [d \in Dev |-> {i \in checked[d] : link'[i].status # "FREE"}]

Initialize == \E d \in Dev : device_initialize(d) /\ UNCHANGED <<bind, checked, sync>>

Add ==
    \E d \in Dev, p \in Dev \cup {NoDev}, n \in BOOLEAN, f \in BOOLEAN :
        device_add(d, p, n, f) /\ UNCHANGED <<bind, checked, sync>>

\* Root devices, registered in the order they were initialized.
AddRoot ==
    \E d \in Dev :
        /\ \A e \in Dev : e < d => reg[e] = "added"
        /\ device_add(d, NoDev, TRUE, FALSE)
        /\ UNCHANGED <<bind, checked, sync>>

Unregister ==
    \E d \in Dev : device_unregister(d) /\ UNCHANGED <<bind, sync>> /\ KeepChecked

PutOwner ==
    \E d \in Dev : put_device_owner(d) /\ UNCHANGED <<bind, checked, sync>>

\* Links from a device to one initialized before it, with every valid
\* combination of flags.
LinkAdd ==
    \E c \in Dev, s \in Dev, f \in ValidFlagSets :
        /\ s < c
        /\ device_link_add(c, s, f, FALSE)
        /\ UNCHANGED <<bind, checked, sync>>

\* Links between any two devices, with no flag or with the invalid
\* combination of both.
LinkAddAny ==
    \E c \in Dev, s \in Dev, oom \in BOOLEAN,
       f \in {{}, {DL_FLAG_STATELESS, DL_FLAG_AUTOREMOVE}} :
        device_link_add(c, s, f, oom) /\ UNCHANGED <<bind, checked, sync>>

LinkDel ==
    \E i \in LinkId : device_link_del(i) /\ UNCHANGED <<bind, sync>> /\ KeepChecked

AddKobject ==
    \E d \in Dev, p \in Dev \cup {NoDev}, n \in BOOLEAN :
        device_add_kobject(d, p, n) /\ UNCHANGED <<bind, checked, sync>>

AddPm == \E d \in Dev : device_add_pm(d) /\ UNCHANGED <<bind, checked, sync>>

AddChildren == \E d \in Dev : device_add_children(d) /\ UNCHANGED <<bind, checked, sync>>

AddUnwind == \E d \in Dev : device_add_unwind(d) /\ UNCHANGED <<bind, checked, sync>>

DelKlist == \E d \in Dev : device_del_klist(d) /\ UNCHANGED <<bind, checked, sync>>

DelPm == \E d \in Dev : device_del_pm(d) /\ UNCHANGED <<bind, checked, sync>>

DelPurge == \E d \in Dev : device_del_purge(d) /\ UNCHANGED <<bind, sync>> /\ KeepChecked

DelKobject == \E d \in Dev : device_del_kobject(d) /\ UNCHANGED <<bind, checked, sync>>

DelPutParent ==
    \E d \in Dev : device_del_put_parent(d) /\ UNCHANGED <<bind, checked, sync>>

UnregisterPut ==
    \E d \in Dev : device_unregister_put(d) /\ UNCHANGED <<bind, checked, sync>>

\* really_probe(): the links to suppliers are checked first; the probe goes
\* on only when the check returned 0.
really_probe(dev) ==
    /\ reg[dev] = "added"
    /\ drv[dev] = "none"
    /\ nprobes < MaxProbes
    /\ nprobes' = nprobes + 1
    /\ device_links_check_suppliers(dev)
    /\ drv' = [drv EXCEPT ![dev] = IF last'.ret = 0 THEN "probing" ELSE "none"]
    /\ checked' = [checked EXCEPT ![dev] =
                    IF last'.ret = 0
                    THEN {i \in Range(suppliers[dev]) :
                            DL_FLAG_STATELESS \notin link[i].flags}
                    ELSE {}]
    /\ UNCHANGED ucons

\* driver_bound(): the probe succeeded.
driver_bound(dev) ==
    /\ drv[dev] = "probing"
    /\ device_links_driver_bound(dev)
    /\ drv' = [drv EXCEPT ![dev] = "bound"]
    /\ checked' = [checked EXCEPT ![dev] = {}]
    /\ UNCHANGED <<ucons, nprobes>>

\* really_probe(), label probe_failed.
probe_failed(dev) ==
    /\ drv[dev] = "probing"
    /\ device_links_no_driver(dev)
    /\ drv' = [drv EXCEPT ![dev] = "none"]
    /\ checked' = [d \in Dev |-> IF d = dev THEN {}
                                 ELSE {i \in checked[d] : link'[i].status # "FREE"}]
    /\ UNCHANGED <<ucons, nprobes>>

\* __device_release_driver(): the while (device_links_busy(dev)) test.
release_driver(dev) ==
    /\ drv[dev] = "bound"
    /\ device_links_busy(dev)
    /\ drv' = [drv EXCEPT ![dev] = IF last'.ret = 1 THEN "uc_start" ELSE "releasing"]
    /\ UNCHANGED <<ucons, checked, nprobes>>

\* __device_release_driver(): device_links_unbind_consumers(dev), one pass.
unbind_consumers(dev) ==
    /\ drv[dev] = "uc_start"
    /\ device_links_unbind_consumers(dev)
    /\ drv' = [drv EXCEPT ![dev] = CASE last'.ret = 0 -> "bound"
                                     [] last'.ret = 1 -> "uc_wait"
                                     [] last'.ret = 2 -> "uc_release"]
    /\ ucons' = [ucons EXCEPT ![dev] = last'.sup]
    /\ UNCHANGED <<checked, nprobes>>

\* wait_for_device_probe() returns when no probe is in flight.
unbind_wait_done(dev) ==
    /\ drv[dev] = "uc_wait"
    /\ \A e \in Dev : drv[e] # "probing"
    /\ drv' = [drv EXCEPT ![dev] = "uc_start"]
    /\ last' = Call("wait_for_device_probe", dev, NoDev, 0)
    /\ UNCHANGED <<reg, parent, children, kset, kref, dlstatus, consumers,
                   suppliers, link, ucons, checked, nlinks, nprobes>>

\* device_release_driver_internal(consumer) has returned: the driver of the
\* consumer has been removed (uc_released), or the consumer has no driver.
unbind_release_done(dev) ==
    /\ \/ drv[dev] = "uc_released"
       \/ drv[dev] = "uc_release" /\ drv[ucons[dev]] = "none"
    /\ unbind_consumers_put(dev, ucons[dev])
    /\ drv' = [drv EXCEPT ![dev] = "uc_start"]
    /\ ucons' = [ucons EXCEPT ![dev] = NoDev]
    /\ UNCHANGED <<checked, nprobes>>

\* __device_release_driver(): the driver is removed, then the links are
\* cleaned up.
release_done(dev) ==
    /\ drv[dev] = "releasing"
    /\ device_links_driver_cleanup(dev)
    /\ drv' = [d \in Dev |->
                IF d = dev THEN "none"
                ELSE IF drv[d] = "uc_release" /\ ucons[d] = dev THEN "uc_released"
                ELSE drv[d]]
    /\ KeepChecked
    /\ UNCHANGED <<ucons, nprobes>>

Probe == \E d \in Dev : really_probe(d) /\ UNCHANGED sync
Bound == \E d \in Dev : driver_bound(d) /\ UNCHANGED sync
ProbeFailed == \E d \in Dev : probe_failed(d) /\ UNCHANGED sync
Release == \E d \in Dev : release_driver(d) /\ UNCHANGED sync
UnbindConsumers == \E d \in Dev : unbind_consumers(d) /\ UNCHANGED sync
UnbindWaitDone == \E d \in Dev : unbind_wait_done(d) /\ UNCHANGED sync
UnbindReleaseDone == \E d \in Dev : unbind_release_done(d) /\ UNCHANGED sync
ReleaseDone == \E d \in Dev : release_done(d) /\ UNCHANGED sync

\* Devices are registered as roots; links are added and deleted and drivers
\* are probed, bound and released in every interleaving.
Next ==
    \/ Initialize
    \/ AddRoot
    \/ LinkAdd
    \/ LinkDel
    \/ Probe
    \/ Bound
    \/ ProbeFailed
    \/ Release
    \/ UnbindConsumers
    \/ UnbindWaitDone
    \/ UnbindReleaseDone
    \/ ReleaseDone

\* Registration, unregistration and links with no driver bound anywhere: the
\* tree, the links and the ordering list.
NextOrder ==
    \/ Initialize
    \/ Add
    \/ Unregister
    \/ PutOwner
    \/ LinkAddAny
    \/ LinkDel

SpecOrder == Init /\ [][NextOrder]_vars

\* The removal of the driver of a consumer that a
\* device_links_unbind_consumers() is waiting for.
ReleaseConsumer ==
    \E d \in Dev :
        drv[d] = "uc_release" /\ release_driver(ucons[d]) /\ UNCHANGED sync

\* Every probe in flight completes, every driver removal that was started
\* goes on to its end, and device_links_unbind_consumers() takes its steps.
Fairness ==
    /\ WF_vars(Bound \/ ProbeFailed)
    /\ WF_vars(UnbindConsumers)
    /\ WF_vars(UnbindWaitDone)
    /\ WF_vars(UnbindReleaseDone)
    /\ WF_vars(ReleaseConsumer)
    /\ WF_vars(ReleaseDone)

\* device_initialize() of one of the first FairDev devices.
InitializeFair ==
    \E d \in 1..FairDev : device_initialize(d) /\ UNCHANGED <<bind, checked, sync>>

\* The steps of Next with only the first FairDev devices ever initialized.
NextFair ==
    \/ InitializeFair
    \/ AddRoot
    \/ LinkAdd
    \/ LinkDel
    \/ Probe
    \/ Bound
    \/ ProbeFailed
    \/ Release
    \/ UnbindConsumers
    \/ UnbindWaitDone
    \/ UnbindReleaseDone
    \/ ReleaseDone

SpecFair == Init /\ [][NextFair]_vars /\ Fairness

\* The first FairDev devices with their drivers, links deleted by
\* device_link_del(), by the AUTOREMOVE flag and by device_unregister().
NextRef ==
    \/ InitializeFair
    \/ AddRoot
    \/ Unregister
    \/ LinkAdd
    \/ LinkDel
    \/ Probe
    \/ Bound
    \/ ProbeFailed
    \/ Release
    \/ UnbindConsumers
    \/ UnbindWaitDone
    \/ UnbindReleaseDone
    \/ ReleaseDone

SpecRef == Init /\ [][NextRef]_vars

\* ------------------------------------------------------------------------
\* Locks
\* ------------------------------------------------------------------------
\* device_links_lock is free for a writer: no writer holds it and, in the
\* rwsem build, no reader either.
LockFree == links_lock = NoThread /\ (CONFIG_SRCU \/ readers = {})

\* device_links_write_lock(): mutex_lock() or down_write().
device_links_write_lock(t) ==
    /\ LockFree
    /\ links_lock' = t

\* device_links_write_unlock(): mutex_unlock() or up_write().
device_links_write_unlock(t) ==
    /\ links_lock = t
    /\ links_lock' = NoThread

\* device_links_read_lock(): srcu_read_lock() never waits, down_read() waits
\* for the writer.
device_links_read_lock(t) ==
    /\ CONFIG_SRCU \/ links_lock = NoThread
    /\ readers' = readers \cup {t}

\* device_links_read_unlock(): srcu_read_unlock() or up_read(); a grace
\* period that waited for this section waits for it no longer.
device_links_read_unlock(t) ==
    /\ readers' = readers \ {t}
    /\ srcu' = [i \in LinkId |-> [srcu[i] EXCEPT !.wait = @ \ {t}]]

\* device_pm_lock(): mutex_lock(&dpm_list_mtx).
device_pm_lock(t) ==
    /\ pm_lock = NoThread
    /\ pm_lock' = t

\* device_pm_unlock(): mutex_unlock(&dpm_list_mtx).
device_pm_unlock(t) ==
    /\ pm_lock = t
    /\ pm_lock' = NoThread

\* call_srcu(): the free is queued behind every read-side section that is
\* in progress now.
call_srcu(id) == [queued |-> TRUE, wait |-> readers]

\* The link is on the lists of its two devices.
Linked(i) ==
    /\ link[i].status # "FREE"
    /\ i \in Range(consumers[link[i].supplier])

\* The SRCU deletion that frees the link at once instead of queueing the
\* free.
__device_link_del_srcu_frees_now(g, id) ==
    device_link_free(
        [g EXCEPT !.consumers = [@ EXCEPT ![g.link[id].supplier] = SeqRemove(@, id)],
                  !.suppliers = [@ EXCEPT ![g.link[id].consumer] = SeqRemove(@, id)]],
        id)

\* __device_link_del() of the SRCU build: list_del_rcu() of both nodes; the
\* link and the references it holds stay until the callback runs.
__device_link_del_srcu(g, id) ==
    [g EXCEPT !.consumers = [@ EXCEPT ![g.link[id].supplier] = SeqRemove(@, id)],
              !.suppliers = [@ EXCEPT ![g.link[id].consumer] = SeqRemove(@, id)]]

\* __device_link_free_srcu(): the callback that call_srcu() queued runs
\* device_link_free() once the grace period is over.
__device_link_free_srcu(id) ==
    /\ srcu[id].queued
    /\ srcu[id].wait = {}
    /\ LET g == device_link_free(Cur, id)
       IN  /\ link' = g.link
           /\ kref' = g.kref
           /\ reg' = device_release(reg, g.kref)
    /\ srcu' = [srcu EXCEPT ![id] = NoCallback]
    /\ UNCHANGED <<parent, children, dlstatus, consumers, suppliers, kset,
                   nlinks, last, links_lock, pm_lock, pc, readers,
                   CONFIG_SRCU, shut>>

\* list_move_tail(&deva->kobj.entry, &devb->kobj.entry)
devices_kset_move_before(ks, deva, devb) ==
    LET r == SeqRemove(ks, deva)
        i == IndexOf(r, devb)
    IN  SubSeq(r, 1, i - 1) \o <<deva>> \o SubSeq(r, i, Len(r))

\* list_move(&deva->kobj.entry, &devb->kobj.entry)
devices_kset_move_after(ks, deva, devb) ==
    LET r == SeqRemove(ks, deva)
        i == IndexOf(r, devb)
    IN  SubSeq(r, 1, i) \o <<deva>> \o SubSeq(r, i + 1, Len(r))

DPM_ORDER_NONE == "DPM_ORDER_NONE"
DPM_ORDER_DEV_AFTER_PARENT == "DPM_ORDER_DEV_AFTER_PARENT"
DPM_ORDER_PARENT_BEFORE_DEV == "DPM_ORDER_PARENT_BEFORE_DEV"
DPM_ORDER_DEV_LAST == "DPM_ORDER_DEV_LAST"
DpmOrders == {DPM_ORDER_NONE, DPM_ORDER_DEV_AFTER_PARENT,
              DPM_ORDER_PARENT_BEFORE_DEV, DPM_ORDER_DEV_LAST}

\* A call of device_move() with its order.
MoveCall(dev, new_parent, ret, dpm_order) ==
    [op |-> "device_move", dev |-> dev, sup |-> new_parent, ret |-> ret,
     order |-> dpm_order]

\* device_move(), from new_parent = get_device(new_parent) to
\* put_device(old_parent); fails: kobject_move() returns an error.  The
\* callers pass a registered device, another registered device or NULL as
\* the new parent, and an order relative to the parent only with a parent.
\* Nothing is checked about what depends on what.
device_move(dev, new_parent, dpm_order, fails) ==
    /\ reg[dev] = "added"
    /\ new_parent # dev
    /\ new_parent # NoDev => reg[new_parent] = "added"
    /\ new_parent = NoDev => dpm_order \in {DPM_ORDER_NONE, DPM_ORDER_DEV_LAST}
    /\ IF fails
       THEN /\ last' = MoveCall(dev, new_parent, -12, dpm_order)
            /\ UNCHANGED <<reg, parent, children, kref, kset>>
       ELSE LET old_parent == parent[dev]
                removed == IF old_parent = NoDev THEN children
                           ELSE [children EXCEPT ![old_parent] = SeqRemove(@, dev)]
                k1 == get_device(kref, new_parent)
                k2 == IF old_parent = NoDev THEN k1 ELSE put_device(k1, dev)
                k3 == IF new_parent = NoDev THEN k2 ELSE get_device(k2, dev)
                k4 == put_device(k3, old_parent)
            IN  /\ parent' = [parent EXCEPT ![dev] = new_parent]
                /\ children' = IF new_parent = NoDev THEN removed
                               ELSE [removed EXCEPT ![new_parent] = Append(@, dev)]
                /\ kset' = CASE dpm_order = DPM_ORDER_NONE -> kset
                             [] dpm_order = DPM_ORDER_DEV_AFTER_PARENT ->
                                    devices_kset_move_after(kset, dev, new_parent)
                             [] dpm_order = DPM_ORDER_PARENT_BEFORE_DEV ->
                                    devices_kset_move_before(kset, new_parent, dev)
                             [] dpm_order = DPM_ORDER_DEV_LAST ->
                                    devices_kset_move_last(kset, dev)
                /\ kref' = k4
                /\ reg' = device_release(reg, k4)
                /\ last' = MoveCall(dev, new_parent, 0, dpm_order)
    /\ UNCHANGED <<dlstatus, consumers, suppliers, link, nlinks>>

\* What each function does with the two locks, in the order of its code.
device_link_add_steps ==
    <<"write_lock", "pm_lock", "body", "pm_unlock", "write_unlock">>

\* The deletion that leaves out device_pm_lock() and device_pm_unlock().
device_link_del_steps_no_pm_lock == <<"write_lock", "body", "write_unlock">>

device_link_del_steps ==
    <<"write_lock", "pm_lock", "body", "pm_unlock", "write_unlock">>

device_links_busy_steps == <<"write_lock", "body", "write_unlock">>

\* The move that takes device_links_lock inside device_pm_lock.
device_move_steps_write_lock_inside ==
    <<"pm_lock", "write_lock", "body", "write_unlock", "pm_unlock">>

device_move_steps == <<"pm_lock", "body", "pm_unlock">>

\* A traversal of the power layer: device_links_read_lock() and
\* device_links_read_unlock() around a walk of the links.
reader_steps == <<"read_lock", "read_unlock">>

Ops == {"device_link_add", "device_link_del", "device_links_busy",
        "device_move", "reader"}

\* The first thread is a driver's: it adds and deletes links and unbinds.
\* The others are the power layer's: they move devices and walk the links.
ThreadOps(t) ==
    IF t = 1 THEN {"device_link_add", "device_link_del", "device_links_busy"}
    ELSE {"device_move", "reader"}

Program(op) ==
    CASE op = "device_link_add" -> device_link_add_steps
      [] op = "device_link_del" -> device_link_del_steps
      [] op = "device_links_busy" -> device_links_busy_steps
      [] op = "device_move" -> device_move_steps
      [] op = "reader" -> reader_steps

\* The step thread t takes next.
Step(t) == IF pc[t].op = "idle" THEN "none" ELSE Program(pc[t].op)[pc[t].at]

At(t, op, step) == pc[t].op = op /\ Step(t) = step

\* The thread goes on to the next step and returns after the last one.
Advance(t) ==
    pc' = [pc EXCEPT ![t] = IF @.at = Len(Program(@.op)) THEN Idle
                            ELSE [@ EXCEPT !.at = @ + 1]]

\* A thread calls one of the functions.
ThreadCall ==
    \E t \in Thread, op \in Ops :
        /\ op \in ThreadOps(t)
        /\ pc[t] = Idle
        /\ pc' = [pc EXCEPT ![t] = [op |-> op, at |-> 1, seen |-> {}]]
        /\ UNCHANGED <<graph, bind, checked, last, links_lock, pm_lock,
                       readers, srcu, CONFIG_SRCU, shut>>

WriteLock ==
    \E t \in Thread :
        /\ Step(t) = "write_lock"
        /\ device_links_write_lock(t)
        /\ Advance(t)
        /\ UNCHANGED <<graph, bind, checked, last, pm_lock, readers, srcu,
                       CONFIG_SRCU, shut>>

WriteUnlock ==
    \E t \in Thread :
        /\ Step(t) = "write_unlock"
        /\ device_links_write_unlock(t)
        /\ Advance(t)
        /\ UNCHANGED <<graph, bind, checked, last, pm_lock, readers, srcu,
                       CONFIG_SRCU, shut>>

PmLock ==
    \E t \in Thread :
        /\ Step(t) = "pm_lock"
        /\ device_pm_lock(t)
        /\ Advance(t)
        /\ UNCHANGED <<graph, bind, checked, last, links_lock, readers, srcu,
                       CONFIG_SRCU, shut>>

PmUnlock ==
    \E t \in Thread :
        /\ Step(t) = "pm_unlock"
        /\ device_pm_unlock(t)
        /\ Advance(t)
        /\ UNCHANGED <<graph, bind, checked, last, links_lock, readers, srcu,
                       CONFIG_SRCU, shut>>

\* The section begins: the links on the lists now are the ones its walk
\* can reach.
ReadLock ==
    \E t \in Thread :
        /\ Step(t) = "read_lock"
        /\ device_links_read_lock(t)
        /\ pc' = [pc EXCEPT ![t] = [@ EXCEPT !.at = @ + 1,
                                             !.seen = {i \in LinkId : Linked(i)}]]
        /\ UNCHANGED <<graph, bind, checked, last, links_lock, pm_lock, srcu,
                       CONFIG_SRCU, shut>>

ReadUnlock ==
    \E t \in Thread :
        /\ Step(t) = "read_unlock"
        /\ device_links_read_unlock(t)
        /\ Advance(t)
        /\ UNCHANGED <<graph, bind, checked, last, links_lock, pm_lock,
                       CONFIG_SRCU, shut>>

\* device_link_add() between device_pm_lock() and the label out, with no
\* flag.
BodyLinkAdd ==
    \E t \in Thread, c \in Dev, s \in Dev :
        /\ At(t, "device_link_add", "body")
        /\ nlinks < LockLinks
        /\ device_link_add(c, s, {}, FALSE)
        /\ Advance(t)
        /\ UNCHANGED <<bind, checked, links_lock, pm_lock, readers, srcu,
                       CONFIG_SRCU, shut>>

\* device_link_del(): __device_link_del() of the build, on a link that is
\* on the lists.
BodyLinkDel ==
    \E t \in Thread, i \in LinkId :
        /\ At(t, "device_link_del", "body")
        /\ Linked(i)
        /\ IF CONFIG_SRCU
           THEN /\ LET g == __device_link_del_srcu(Cur, i)
                   IN  /\ link' = g.link
                       /\ consumers' = g.consumers
                       /\ suppliers' = g.suppliers
                       /\ kref' = g.kref
                       /\ reg' = device_release(reg, g.kref)
                /\ srcu' = [srcu EXCEPT ![i] = call_srcu(i)]
                /\ last' = Call("device_link_del", link[i].consumer,
                                link[i].supplier, i)
                /\ UNCHANGED <<parent, children, dlstatus, kset, nlinks>>
           ELSE /\ device_link_del(i)
                /\ UNCHANGED srcu
        /\ Advance(t)
        /\ UNCHANGED <<bind, checked, links_lock, pm_lock, readers,
                       CONFIG_SRCU, shut>>

\* __device_release_driver(): device_links_busy() between its lock and its
\* unlock.
BodyBusy ==
    \E t \in Thread, d \in Dev :
        /\ At(t, "device_links_busy", "body")
        /\ release_driver(d)
        /\ Advance(t)
        /\ UNCHANGED <<links_lock, pm_lock, readers, srcu, CONFIG_SRCU, shut>>

\* device_move() between device_pm_lock() and the label out, to a new
\* parent that does not depend on the device.
BodyMove ==
    \E t \in Thread, d \in Dev, p \in Dev \cup {NoDev}, o \in DpmOrders :
        /\ At(t, "device_move", "body")
        /\ p # NoDev => ~device_is_dependent(d, p)
        /\ device_move(d, p, o, FALSE)
        /\ Advance(t)
        /\ UNCHANGED <<bind, checked, links_lock, pm_lock, readers, srcu,
                       CONFIG_SRCU, shut>>

SrcuCallback ==
    \E i \in LinkId : __device_link_free_srcu(i) /\ UNCHANGED bind /\ KeepChecked

\* device_links_check_suppliers(), device_links_driver_bound() and
\* device_links_driver_cleanup() take device_links_write_lock() around all
\* they do.
ProbeLocked == LockFree /\ nprobes < LockProbes /\ Probe
BoundLocked == LockFree /\ Bound
ReleaseDoneLocked == LockFree /\ ReleaseDone

\* Threads that take the locks one step at a time, on the first FairDev
\* devices, registered as roots.
NextLock ==
    \/ InitializeFair
    \/ AddRoot
    \/ ThreadCall
    \/ WriteLock
    \/ PmLock
    \/ PmUnlock
    \/ WriteUnlock
    \/ ReadLock
    \/ ReadUnlock
    \/ BodyLinkAdd
    \/ BodyLinkDel
    \/ BodyBusy
    \/ BodyMove
    \/ SrcuCallback
    \/ ProbeLocked
    \/ BoundLocked
    \/ ReleaseDoneLocked

SpecLock == InitLock /\ [][NextLock]_vars

Spec == Init /\ [][Next]_vars
\* ------------------------------------------------------------------------
\* The dependency relation, stated independently of the list walks above
\* ------------------------------------------------------------------------
LiveLinks == {i \in LinkId : link[i].status # "FREE"}

\* <<a, b>>: b is a child of a.
ChildEdges == {e \in Dev \X Dev : e[2] \in Range(children[e[1]])}

\* <<a, b>>: b is a consumer of a.
LinkEdges ==
    {e \in Dev \X Dev :
        \E i \in LiveLinks : link[i].supplier = e[1] /\ link[i].consumer = e[2]}

DepEdges == ChildEdges \cup LinkEdges

Succ(S) == {e[2] : e \in {x \in DepEdges : x[1] \in S}}

RECURSIVE Closure(_, _)
Closure(S, n) == IF n = 0 THEN S ELSE Closure(S \cup Succ(S), n - 1)

\* d and every device that depends on it, directly or not.
Dependents(d) == Closure({d}, NDev)

Acyclic == \A d \in Dev : d \notin Closure(Succ({d}), NDev)

Pos(d) == IndexOf(kset, d)

\* ------------------------------------------------------------------------
\* Claims
\* ------------------------------------------------------------------------
\* A call of device_link_add() that returned a link (new or existing).
LinkAddReturned == last'.op = "device_link_add" /\ last'.ret # NoLinkId

\* C1: under register, unregister, device_link_add and device_link_del calls
\* made one at a time, the links together with the containment tree stay
\* acyclic, and device_link_add(consumer, supplier) returns no link whenever
\* supplier is consumer itself or depends on it through children and
\* consumer links: a call that returns a link found supplier outside the
\* dependents of consumer.
C1_Acyclicity ==
    /\ []Acyclic
    /\ [][LinkAddReturned => last'.sup \notin Dependents(last'.dev)]_vars

\* C1 witness: a link exists and the reverse link was asked for and refused.
C1_Witness ==
    /\ last.op = "device_link_add"
    /\ last.ret = NoLinkId
    /\ device_pm_initialized(last.sup)
    /\ \E i \in LiveLinks :
        link[i].consumer = last.sup /\ link[i].supplier = last.dev

\* C2: in every state reached by registrations, unregistrations and link
\* additions made one at a time, every link with both ends registered has
\* its supplier before its consumer in devices_kset, and every registered
\* child comes after its registered parent.
C2_Ordering ==
    /\ \A i \in LiveLinks :
        device_is_registered(link[i].supplier) /\ device_is_registered(link[i].consumer)
            => Pos(link[i].supplier) < Pos(link[i].consumer)
    /\ \A e \in ChildEdges :
        device_is_registered(e[1]) /\ device_is_registered(e[2])
            => Pos(e[1]) < Pos(e[2])
    /\ \A d \in Dev : device_is_registered(d) <=> Pos(d) # 0

\* C2 witness: a consumer registered before its supplier, with a child of
\* its own, has been linked: the consumer and its child were moved behind
\* the supplier.
C2_Witness ==
    /\ last.op = "device_link_add"
    /\ last.ret # NoLinkId
    /\ link[last.ret].consumer = 1
    /\ link[last.ret].supplier = 3
    /\ children[1] = <<2>>
    /\ kset = <<3, 1, 2>>
\* The links of a list that take part in the state machine.
Stateful(ids) == {i \in Range(ids) : DL_FLAG_STATELESS \notin link[i].flags}

\* The step is a call of the named function for device d.
Called(op, d) == last'.op = op /\ last'.dev = d

\* C3: from a successful device_links_check_suppliers(C) until
\* device_links_driver_bound(C) or device_links_no_driver(C), every link the
\* check moved to CONSUMER_PROBE stays there (so device_links_busy() of its
\* supplier returns true and the supplier's driver cannot be cleaned up).
C3_ProbeKeepsSuppliers ==
    \A c \in Dev :
        drv[c] = "probing" =>
            \A i \in checked[c] : link[i].status = DL_STATE_CONSUMER_PROBE

\* The table of C4.
C4_Table(sup, con, stateless) ==
    IF stateless THEN DL_STATE_NONE
    ELSE IF sup = DL_DEV_DRIVER_BOUND /\ con = DL_DEV_PROBING
    THEN DL_STATE_CONSUMER_PROBE
    ELSE IF sup = DL_DEV_DRIVER_BOUND /\ con = DL_DEV_DRIVER_BOUND
    THEN DL_STATE_ACTIVE
    ELSE IF sup = DL_DEV_DRIVER_BOUND /\ con \in {DL_DEV_NO_DRIVER, DL_DEV_UNBINDING}
    THEN DL_STATE_AVAILABLE
    ELSE IF sup = DL_DEV_UNBINDING THEN DL_STATE_SUPPLIER_UNBIND
    ELSE IF sup \in {DL_DEV_NO_DRIVER, DL_DEV_PROBING} THEN DL_STATE_DORMANT
    ELSE "?"

\* C4: a device_link_add() that creates a link gives it the state the table
\* names for the link_status of its supplier and consumer at that time, and
\* NONE when the link is stateless.
C4_InitialState ==
    [][LinkAddReturned /\ link[last'.ret].status = "FREE" =>
        link'[last'.ret].status =
            C4_Table(dlstatus[last'.sup], dlstatus[last'.dev],
                     DL_FLAG_STATELESS \in link'[last'.ret].flags)]_vars

\* C4 witness: a link created by a consumer during its own probe, to a
\* bound supplier, is in CONSUMER_PROBE.
C4_Witness ==
    /\ last.op = "device_link_add"
    /\ last.ret # NoLinkId
    /\ drv[last.dev] = "probing"
    /\ dlstatus[last.sup] = DL_DEV_DRIVER_BOUND
    /\ link[last.ret].status = DL_STATE_CONSUMER_PROBE
    /\ last.ret \notin checked[last.dev]

\* C5: device_links_check_suppliers(d) returns 0 exactly when every link of
\* d to a supplier that is not stateless is AVAILABLE; then each of them is
\* CONSUMER_PROBE afterwards, every other link is as before and
\* d's link_status is PROBING.
C5_CheckSuppliers ==
    [][\A d \in Dev : Called("device_links_check_suppliers", d) =>
        /\ last'.ret = 0 <=>
             \A i \in Stateful(suppliers[d]) : link[i].status = DL_STATE_AVAILABLE
        /\ last'.ret = 0 =>
             /\ \A i \in Stateful(suppliers[d]) :
                    link'[i] = [link[i] EXCEPT !.status = DL_STATE_CONSUMER_PROBE]
             /\ \A i \in LinkId \ Stateful(suppliers[d]) : link'[i] = link[i]
             /\ dlstatus'[d] = DL_DEV_PROBING]_vars

\* C5 witness: a check that succeeded over a stateless link and a stateful
\* one.
C5_Witness ==
    /\ last.op = "device_links_check_suppliers"
    /\ last.ret = 0
    /\ \E i \in Range(suppliers[last.dev]) :
        link[i].status = DL_STATE_CONSUMER_PROBE
    /\ \E i \in Range(suppliers[last.dev]) : link[i].status = DL_STATE_NONE

\* C6: when device_links_check_suppliers(d) returns -EPROBE_DEFER, no link
\* of d to a supplier is left in CONSUMER_PROBE: those that were AVAILABLE or
\* CONSUMER_PROBE are AVAILABLE, every other link is as before, and d's
\* link_status is PROBING.
C6_CheckRollback ==
    [][\A d \in Dev :
        Called("device_links_check_suppliers", d) /\ last'.ret # 0 =>
            /\ \A i \in Range(suppliers[d]) :
                /\ link'[i].status # DL_STATE_CONSUMER_PROBE
                /\ link[i].status \in {DL_STATE_AVAILABLE, DL_STATE_CONSUMER_PROBE}
                    => link'[i] = [link[i] EXCEPT !.status = DL_STATE_AVAILABLE]
                /\ link[i].status \notin {DL_STATE_AVAILABLE, DL_STATE_CONSUMER_PROBE}
                    => link'[i] = link[i]
            /\ \A i \in LinkId \ Range(suppliers[d]) : link'[i] = link[i]
            /\ dlstatus'[d] = DL_DEV_PROBING]_vars

\* C6 witness: the check was deferred by the second link of the list after
\* it had passed the first, which is AVAILABLE again.
C6_Witness ==
    /\ last.op = "device_links_check_suppliers"
    /\ last.ret # 0
    /\ Len(suppliers[last.dev]) = 2
    /\ link[suppliers[last.dev][1]].status = DL_STATE_AVAILABLE
    /\ link[suppliers[last.dev][1]].flags = {}
    /\ link[suppliers[last.dev][2]].status = DL_STATE_DORMANT

BusyLinks(d) ==
    {i \in Stateful(consumers[d]) :
        link[i].status \in {DL_STATE_CONSUMER_PROBE, DL_STATE_ACTIVE}}

\* C8: device_links_busy(d) returns true exactly when a stateful link of d
\* to a consumer is CONSUMER_PROBE or ACTIVE at the call, and d's
\* link_status is UNBINDING afterwards in both cases.
C8_Busy ==
    [][\A d \in Dev : Called("device_links_busy", d) =>
        /\ last'.ret = 1 <=> BusyLinks(d) # {}
        /\ last'.ret = 0 <=> BusyLinks(d) = {}
        /\ dlstatus'[d] = DL_DEV_UNBINDING]_vars

\* C8 witness: busy returned true for a supplier whose consumer is probing.
C8_Witness ==
    /\ last.op = "device_links_busy"
    /\ last.ret = 1
    /\ dlstatus[last.dev] = DL_DEV_UNBINDING
    /\ \E i \in Stateful(consumers[last.dev]) :
        link[i].status = DL_STATE_CONSUMER_PROBE

\* The position in d's consumers list of the first busy link.
FirstBusy(d) ==
    CHOOSE n \in 1..Len(consumers[d]) :
        /\ consumers[d][n] \in BusyLinks(d)
        /\ \A m \in 1..(n - 1) : consumers[d][m] \notin BusyLinks(d)

\* C9: when device_links_busy(d) returns true, the link that made it busy
\* and every link after it in d's consumers list are as they were.
C9_BusyFrame ==
    [][\A d \in Dev : Called("device_links_busy", d) /\ last'.ret = 1 =>
        \A n \in FirstBusy(d)..Len(consumers[d]) :
            link'[consumers[d][n]] = link[consumers[d][n]]]_vars

\* C9 witness: busy returned true at the first link of the list and the
\* second link, which is AVAILABLE, was not marked SUPPLIER_UNBIND.
C9_Witness ==
    /\ last.op = "device_links_busy"
    /\ last.ret = 1
    /\ Len(consumers[last.dev]) = 2
    /\ link[consumers[last.dev][1]].status = DL_STATE_ACTIVE
    /\ link[consumers[last.dev][2]].status = DL_STATE_AVAILABLE

\* C10: from device_links_busy(d) returning false until
\* device_links_driver_cleanup(d), every stateful link of d to a consumer,
\* the links added in the meantime included, is SUPPLIER_UNBIND (none is
\* CONSUMER_PROBE or ACTIVE).
C10_UnbindingKeepsConsumersOut ==
    \A d \in Dev :
        drv[d] = "releasing" =>
            \A i \in Stateful(consumers[d]) :
                link[i].status = DL_STATE_SUPPLIER_UNBIND
\* device_links_unbind_consumers(d) is running.
Unbinding(d) == drv[d] \in {"uc_start", "uc_wait", "uc_release", "uc_released"}

C12_UnbindReturn ==
    /\ [][\A d \in Dev : Called("device_links_unbind_consumers", d) =>
            /\ \A i \in LinkId \ Stateful(consumers[d]) : link'[i] = link[i]
            /\ last'.ret = 0 =>
                \A i \in Stateful(consumers[d]) :
                    /\ link[i].status \notin {DL_STATE_CONSUMER_PROBE, DL_STATE_ACTIVE}
                    /\ link'[i] = [link[i] EXCEPT !.status = DL_STATE_SUPPLIER_UNBIND]
            /\ last'.ret = 2 =>
                /\ \E i \in Stateful(consumers[d]) :
                    /\ link[i].status = DL_STATE_ACTIVE
                    /\ link[i].consumer = last'.sup
                    /\ link'[i].status = DL_STATE_SUPPLIER_UNBIND
                /\ drv'[d] = "uc_release"
                /\ ucons'[d] = last'.sup]_vars
    /\ [][\A d \in Dev : drv[d] = "uc_release" /\ drv'[d] # "uc_release" =>
            drv'[ucons[d]] = "none"]_vars

\* C12 witness: device_links_unbind_consumers() has returned after the
\* driver of a consumer was removed; the link to it is SUPPLIER_UNBIND.
C12_Witness ==
    /\ last.op = "device_links_unbind_consumers"
    /\ last.ret = 0
    /\ \E i \in Stateful(consumers[last.dev]) :
        /\ link[i].status = DL_STATE_SUPPLIER_UNBIND
        /\ drv[link[i].consumer] = "none"
        /\ dlstatus[link[i].consumer] = DL_DEV_NO_DRIVER

\* What __device_links_no_driver(d) makes of link i of d's suppliers list:
\* a stateless link stays, an AUTOREMOVE link is deleted, any other becomes
\* AVAILABLE unless it is SUPPLIER_UNBIND.
NoDriverEffect(d, i) ==
    IF DL_FLAG_STATELESS \in link[i].flags THEN link'[i] = link[i]
    ELSE IF DL_FLAG_AUTOREMOVE \in link[i].flags
    THEN /\ link'[i] = FreeLink
         /\ i \notin Range(suppliers'[d])
         /\ i \notin Range(consumers'[link[i].supplier])
    ELSE link'[i] = [link[i] EXCEPT !.status =
                        IF link[i].status = DL_STATE_SUPPLIER_UNBIND
                        THEN DL_STATE_SUPPLIER_UNBIND ELSE DL_STATE_AVAILABLE]

\* C13: device_links_driver_cleanup(d) finds every stateful link of d to a
\* consumer in SUPPLIER_UNBIND and leaves it DORMANT, treats the links of d
\* to suppliers as __device_links_no_driver() does and sets d's link_status
\* to NO_DRIVER.
C13_DriverCleanup ==
    [][\A d \in Dev : Called("device_links_driver_cleanup", d) =>
        /\ \A i \in Stateful(consumers[d]) :
            /\ link[i].status = DL_STATE_SUPPLIER_UNBIND
            /\ link'[i] = [link[i] EXCEPT !.status = DL_STATE_DORMANT]
        /\ \A i \in Range(suppliers[d]) : NoDriverEffect(d, i)
        /\ dlstatus'[d] = DL_DEV_NO_DRIVER]_vars

\* C14: device_links_no_driver(d) leaves every stateful link of d to a
\* supplier that is not AUTOREMOVE in AVAILABLE, or in SUPPLIER_UNBIND when
\* it was there, sets d's link_status to NO_DRIVER and changes no link of d
\* to a consumer and no stateless link.
C14_NoDriver ==
    [][\A d \in Dev : Called("device_links_no_driver", d) =>
        /\ \A i \in Stateful(suppliers[d]) :
            DL_FLAG_AUTOREMOVE \notin link[i].flags =>
                link'[i] = [link[i] EXCEPT !.status =
                              IF link[i].status = DL_STATE_SUPPLIER_UNBIND
                              THEN DL_STATE_SUPPLIER_UNBIND
                              ELSE DL_STATE_AVAILABLE]
        /\ dlstatus' = [dlstatus EXCEPT ![d] = DL_DEV_NO_DRIVER]
        /\ consumers'[d] = consumers[d]
        /\ \A i \in Range(consumers[d]) : link'[i] = link[i]
        /\ \A i \in LinkId :
            DL_FLAG_STATELESS \in link[i].flags => link'[i] = link[i]]_vars

\* C14 witness: after a failed probe one link to a supplier is AVAILABLE
\* and another, whose supplier is unbinding, is still SUPPLIER_UNBIND.
C14_Witness ==
    /\ last.op = "device_links_no_driver"
    /\ \E i \in Stateful(suppliers[last.dev]) :
        link[i].status = DL_STATE_AVAILABLE
    /\ \E i \in Stateful(suppliers[last.dev]) :
        /\ link[i].status = DL_STATE_SUPPLIER_UNBIND
        /\ dlstatus[link[i].supplier] = DL_DEV_UNBINDING

\* The live AUTOREMOVE links whose consumer is d.
AutoRemoveLinks(d) ==
    {i \in LiveLinks : link[i].consumer = d /\ DL_FLAG_AUTOREMOVE \in link[i].flags}

\* C15: after device_links_no_driver(d) or device_links_driver_cleanup(d)
\* no AUTOREMOVE link with consumer d is left, in d's suppliers list or in
\* any consumers list, and each device has lost exactly one reference for
\* each end it had in the deleted links.
C15_AutoRemove ==
    [][\A d \in Dev :
        Called("device_links_no_driver", d)
            \/ Called("device_links_driver_cleanup", d) =>
            /\ \A i \in AutoRemoveLinks(d) :
                /\ link'[i] = FreeLink
                /\ \A e \in Dev : i \notin Range(consumers'[e]) \cup Range(suppliers'[e])
            /\ \A i \in Range(suppliers'[d]) :
                DL_FLAG_AUTOREMOVE \notin link'[i].flags
            /\ \A e \in Dev :
                kref'[e] = kref[e]
                    - Cardinality({i \in AutoRemoveLinks(d) : link[i].supplier = e})
                    - Cardinality({i \in AutoRemoveLinks(d) : link[i].consumer = e})]_vars

\* C15 witness: the driver of a consumer was removed; of the two links it
\* had, the AUTOREMOVE one is gone with its references and the other is
\* left.
C15_Witness ==
    /\ last.op = "device_links_driver_cleanup"
    /\ nlinks = 2
    /\ \E i \in LinkId :
        /\ link[i].status = "FREE"
        /\ \E j \in LinkId \ {i} :
            /\ suppliers[last.dev] = <<j>>
            /\ link[j].flags = {}
            /\ kref[last.dev] = 2
            /\ kref[link[j].supplier] = 2
            /\ \E e \in Dev \ {last.dev, link[j].supplier} :
                kref[e] = 1 /\ consumers[e] = <<>>

\* C16: a live link is in NONE exactly when it is stateless, in every state
\* that check_suppliers, driver_bound, no_driver, busy, unbind_consumers and
\* driver_cleanup on its ends can lead to; a failing
\* device_links_check_suppliers() and a device_links_busy() returning true
\* always have a stateful link as their cause.
C16_Stateless ==
    /\ [](\A i \in LiveLinks :
            link[i].status = DL_STATE_NONE <=> DL_FLAG_STATELESS \in link[i].flags)
    /\ [][\A d \in Dev :
            /\ Called("device_links_check_suppliers", d) /\ last'.ret # 0 =>
                \E i \in Stateful(suppliers[d]) :
                    link[i].status # DL_STATE_AVAILABLE
            /\ Called("device_links_busy", d) /\ last'.ret = 1 =>
                \E i \in Stateful(consumers[d]) :
                    link[i].status \in {DL_STATE_CONSUMER_PROBE, DL_STATE_ACTIVE}]_vars

\* C16 witness: device_links_busy() returned false for a supplier whose
\* only link is a stateless one to a consumer with a driver bound; the link
\* is in NONE.
C16_Witness ==
    /\ last.op = "device_links_busy"
    /\ last.ret = 0
    /\ \E i \in LiveLinks :
        /\ consumers[last.dev] = <<i>>
        /\ DL_FLAG_STATELESS \in link[i].flags
        /\ link[i].status = DL_STATE_NONE
        /\ drv[link[i].consumer] = "bound"
        /\ suppliers[link[i].consumer] = <<i>>

\* The live links from consumer c to supplier s.
LinksOf(c, s) == {i \in LiveLinks : link[i].consumer = c /\ link[i].supplier = s}

\* C17: there is at most one live link for each ordered pair of consumer
\* and supplier; a device_link_add() for a pair that has a link returns
\* that link and changes no link, list, reference count or position in
\* devices_kset.
C17_Relink ==
    /\ [](\A c \in Dev, s \in Dev : Cardinality(LinksOf(c, s)) <= 1)
    /\ [][last'.op = "device_link_add" /\ LinksOf(last'.dev, last'.sup) # {} =>
            /\ last'.ret \in LinksOf(last'.dev, last'.sup)
            /\ UNCHANGED <<link, consumers, suppliers, kref, kset, nlinks,
                           dlstatus>>]_vars

\* C17 witness: the first link was returned by a device_link_add() made
\* after the second link was created, and its consumer has not been moved
\* behind the device registered after it.
C17_Witness ==
    /\ last.op = "device_link_add"
    /\ last.ret = 1
    /\ nlinks = 2
    /\ link[1].consumer = 2
    /\ link[1].status # "FREE"
    /\ link[2].status # "FREE"
    /\ kset = <<1, 2, 3>>

\* The invalid combination of flags.
BothFlags == {DL_FLAG_STATELESS, DL_FLAG_AUTOREMOVE}

\* C18: a device_link_add() with both DL_FLAG_STATELESS and
\* DL_FLAG_AUTOREMOVE returns NULL in every state of the graph, before it
\* takes a lock and without changing anything, and no live link carries
\* both flags.
C18_FlagExclusivity ==
    /\ [](\A i \in LiveLinks : ~(BothFlags \subseteq link[i].flags))
    /\ [][\A c \in Dev, s \in Dev, oom \in BOOLEAN :
            device_link_add(c, s, BothFlags, oom) =>
                /\ last'.ret = NoLinkId
                /\ ~last'.locked
                /\ UNCHANGED <<link, consumers, suppliers, kref, kset, nlinks,
                               dlstatus, reg, parent, children>>]_vars

\* C18 witness: a device_link_add() with both flags was refused without a
\* lock taken, between two devices that another link already depends on
\* and for which the call with valid flags would have created a link.
C18_Witness ==
    /\ last.op = "device_link_add"
    /\ last.ret = NoLinkId
    /\ ~last.locked
    /\ device_pm_initialized(last.sup)
    /\ last.sup \notin Dependents(last.dev)
    /\ LinksOf(last.dev, last.sup) = {}
    /\ \E i \in LiveLinks : link[i].supplier = last.dev
    /\ nlinks < MaxLinks

\* Links between any two devices, with no flag.  On a graph that has a
\* cycle the recursion of device_is_dependent() and of
\* device_reorder_to_tail() does not end, so no call returns there.
LinkAddPlain ==
    /\ Acyclic
    /\ \E c \in Dev, s \in Dev :
        device_link_add(c, s, {}, FALSE) /\ UNCHANGED <<bind, checked, sync>>

\* The devices of the step-by-step runs.
InitializeReg ==
    \E d \in 1..RegDev : device_initialize(d) /\ UNCHANGED <<bind, checked, sync>>

\* Registration and unregistration taken step by step, with links added and
\* deleted between the steps.
NextReg ==
    \/ InitializeReg
    \/ AddKobject
    \/ AddPm
    \/ AddChildren
    \/ AddUnwind
    \/ DelKlist
    \/ DelPm
    \/ DelPurge
    \/ DelKobject
    \/ DelPutParent
    \/ UnregisterPut
    \/ LinkAddPlain
    \/ LinkDel

SpecReg == Init /\ [][NextReg]_vars

\* C19: a device_link_add() returns a link only when its supplier is
\* registered (its device_add() has returned 0 and no device_del() has
\* run), so that the supplier of every link was registered when the link
\* was created.
C19_SupplierRegistered ==
    [][LinkAddReturned => reg[last'.sup] = "added"]_vars

\* C20: a device_link_add() that fails leaves the graph as it was.  A call
\* made with both DL_FLAG_STATELESS and DL_FLAG_AUTOREMOVE (it returns
\* before the locks), with a supplier that is not registered, or with a
\* supplier that depends on the consumer returns no link, and a call that
\* returns no link changes no link, no list of links, no link status of a
\* device, no reference count, nothing of devices_kset and nothing of the
\* tree.
C20_FailedAddUnchanged ==
    [][(/\ last'.op = "device_link_add"
        /\ \/ last'.ret = NoLinkId
           \/ ~last'.locked
           \/ reg[last'.sup] # "added"
           \/ last'.sup \in Dependents(last'.dev))
       => /\ last'.ret = NoLinkId
          /\ UNCHANGED <<link, consumers, suppliers, nlinks, dlstatus, kref,
                         kset, reg, parent, children>>]_vars

\* C20 witness: with a link in place, a link from a registered parent to its
\* registered child was asked for and refused.
C20_Witness ==
    /\ last.op = "device_link_add"
    /\ last.ret = NoLinkId
    /\ last.locked
    /\ reg[last.dev] = "added"
    /\ reg[last.sup] = "added"
    /\ parent[last.sup] = last.dev
    /\ LiveLinks # {}

\* Links that have d as consumer or as supplier.
LinkIdsAt(l, d) ==
    {i \in LinkId : l[i].status # "FREE" /\ d \in {l[i].consumer, l[i].supplier}}

LinksAt(d) == LinkIdsAt(link, d)

\* Links that sit in some device's consumers or suppliers list.
Listed == UNION {Range(consumers[e]) \cup Range(suppliers[e]) : e \in Dev}

\* C21: when device_unregister(dev) returns, dev is in no klist_children, no
\* link has dev as consumer or supplier and none of them sits in a list of
\* the device at its other end, dev is not in devices_kset, and the
\* reference dev held on its parent is released: the parent's count went
\* down by one, and by one more for every purged link to the parent.
C21_Unregistered ==
    [][last'.op = "device_unregister" =>
        LET d == last'.dev
        IN  /\ \A p \in Dev : d \notin Range(children'[p])
            /\ LinkIdsAt(link', d) = {}
            /\ consumers'[d] = <<>>
            /\ suppliers'[d] = <<>>
            /\ Listed' = LiveLinks'
            /\ LiveLinks' = LiveLinks \ LinksAt(d)
            /\ d \notin Range(kset')
            /\ parent[d] # NoDev =>
                kref'[parent[d]] = kref[parent[d]] - 1
                    - Cardinality({i \in LinksAt(d) :
                                     parent[d] \in {link[i].consumer,
                                                    link[i].supplier}})]_vars

\* C21 witness: a device with a parent, a link to a supplier and a link from
\* a consumer has been unregistered.
C21_Witness ==
    /\ last.op = "device_unregister"
    /\ parent[last.dev] # NoDev
    /\ nlinks = 2
    /\ LiveLinks = {}
    /\ \E e \in Dev \ {last.dev, parent[last.dev]} : reg[e] = "added"

\* C22: device_del() takes dev out of its parent's children, then purges
\* its links, then takes it out of devices_kset, then puts the parent, as
\* one section that no other call enters: while the call is in progress, a
\* device that has left devices_kset has no link, and the links are purged
\* only after the device left the children list and the parent is put only
\* after it left devices_kset.
C22_UnregisterOrder ==
    \A d \in Dev :
        /\ reg[d] = "del_kobj" => LinksAt(d) = {}
        /\ reg[d] \in {"del_links", "del_kobj"} =>
            /\ \A p \in Dev : d \notin Range(children[p])
            /\ parent[d] # NoDev => kref[parent[d]] >= 1
        /\ reg[d] = "del_links" => d \in Range(kset)

\* ------------------------------------------------------------------------
\* The holders of references to a device, counted from the structures
\* ------------------------------------------------------------------------
\* The owner's reference, from device_initialize() to its put_device().
OwnerRef(d) == IF reg[d] \in LifeStates \ {"deleted"} THEN 1 ELSE 0

\* The reference device_add() holds on dev while it runs.
AddRef(d) == IF reg[d] \in {"sysfs", "pm"} THEN 1 ELSE 0

\* Devices whose dev->parent is d and that hold the reference taken by
\* device_add() and put by device_del().
ChildRefs(d) ==
    Cardinality({c \in Dev : /\ parent[c] = d
                             /\ reg[c] \in {"sysfs", "pm", "added", "del_klist",
                                            "del_pm", "del_links", "del_kobj"}})

\* The reference of the klist_children that d is a node of.
ListRef(d) == IF \E p \in Dev : d \in Range(children[p]) THEN 1 ELSE 0

\* One reference for each link end at d.
LinkRefs(d) ==
    Cardinality({i \in LiveLinks : link[i].consumer = d})
        + Cardinality({i \in LiveLinks : link[i].supplier = d})

\* The reference device_links_unbind_consumers() holds on the consumer whose
\* driver it is removing.
UnbindRefs(d) ==
    Cardinality({s \in Dev : /\ drv[s] \in {"uc_release", "uc_released"}
                             /\ ucons[s] = d})

Holders(d) ==
    OwnerRef(d) + AddRef(d) + ChildRefs(d) + ListRef(d) + LinkRefs(d)
        + UnbindRefs(d)

\* C23: a device_add() that returns an error leaves nothing of the
\* registration behind: dev is not in devices_kset, not among the children
\* of any device, and the reference counts of dev and of every other device
\* are the counts of their holders, none of them from this registration;
\* and from device_initialize() to the last failing step dev is among the
\* children of no device.
C23_FailedAddUnwinds ==
    /\ [](\A d \in Dev : reg[d] \in {"init", "sysfs", "pm"} =>
            \A p \in Dev : d \notin Range(children[p]))
    /\ [][(last'.op = "device_add" /\ last'.ret # 0) =>
            \A d \in Dev :
                /\ d = last'.dev =>
                    /\ d \notin Range(kset')
                    /\ \A p \in Dev : d \notin Range(children'[p])
                    /\ AddRef(d)' = 0
                    /\ \A p \in Dev : parent'[d] # p
                /\ Alive(d) => kref'[d] = Holders(d)']_vars

\* C23 witness: the registration of a device under a registered parent has
\* failed after kobject_add(), while the device has a link.
C23_Witness ==
    /\ last.op = "device_add"
    /\ last.ret = -12
    /\ last.sup # NoDev
    /\ reg[last.sup] = "added"
    /\ LinksAt(last.dev) # {}

\* C24: a device_add() that returns 0 has put dev at the tail of
\* devices_kset; with a parent it has put dev at the tail of the parent's
\* children and taken one reference on the parent, with no parent it has
\* changed no children list; and as long as a device with a parent is
\* registered the parent exists and its count includes that reference.
C24_Register ==
    /\ [](\A d \in Dev : (reg[d] = "added" /\ parent[d] # NoDev) =>
            /\ Alive(parent[d])
            /\ kref[parent[d]] = Holders(parent[d])
            /\ kref[parent[d]] >= ChildRefs(parent[d]))
    /\ [][(last'.op = "device_add" /\ last'.ret = 0) =>
            \A d \in Dev :
                d = last'.dev =>
                    /\ d \notin Range(kset)
                    /\ kset' = Append(kset, d)
                    /\ parent'[d] = last'.sup
                    /\ last'.sup = NoDev => children' = children
                    /\ \A p \in Dev :
                        IF p = last'.sup
                        THEN /\ children'[p] = Append(children[p], d)
                             /\ kref'[p] = kref[p] + 1
                        ELSE children'[p] = children[p]]_vars

\* C24 witness: a second child has been registered under a parent that has
\* a link, after a third device.
C24_Witness ==
    /\ last.op = "device_add"
    /\ last.ret = 0
    /\ last.sup # NoDev
    /\ Len(kset) = 3
    /\ Len(children[last.sup]) = 2
    /\ LinksAt(last.sup) # {}

\* C25: every link holds one reference on its consumer and one on its
\* supplier from device_link_add() until it is freed: the count of every
\* device is the number of its holders, one for each end of a live link at
\* it.  A link is live exactly as long as it is in the consumers list of its
\* supplier and in the suppliers list of its consumer, so a freed link is in
\* no list; and a link that was freed is never live again, whether
\* device_link_del(), the AUTOREMOVE flag or device_links_purge() freed it.
C25_LinkRefBalance ==
    /\ [](\A d \in Dev : Alive(d) => kref[d] = Holders(d))
    /\ [](\A i \in LiveLinks :
            /\ i \in Range(consumers[link[i].supplier])
            /\ i \in Range(suppliers[link[i].consumer]))
    /\ [](Listed = LiveLinks)
    /\ [][\A i \in LinkId :
            /\ (i <= nlinks /\ i \notin LiveLinks) => i \notin LiveLinks'
            /\ (i \in LiveLinks /\ i \notin LiveLinks') =>
                /\ kref'[link[i].consumer] < kref[link[i].consumer]
                /\ kref'[link[i].supplier] < kref[link[i].supplier]]_vars

\* C25 witness: two links were created and both are freed, the last of them
\* by the device_unregister() of a device whose supplier has a driver.
C25_Witness ==
    /\ last.op = "device_unregister"
    /\ nlinks = 2
    /\ LiveLinks = {}
    /\ \E e \in Dev \ {last.dev} : dlstatus[e] = DL_DEV_DRIVER_BOUND /\ kref[e] = 1

\* d is in a structure: in a children list, at an end of a link, the parent
\* of a registered device, or in devices_kset.
InStructure(d) ==
    \/ \E p \in Dev : d \in Range(children[p])
    \/ LinksAt(d) # {}
    \/ \E c \in Dev : parent[c] = d /\ reg[c] = "added"
    \/ d \in Range(kset)

\* C26: device_release() runs for a device exactly when its count reaches
\* zero and never twice; the count is not zero, and the device not released,
\* while the device is in a children list, at an end of a link, the parent of
\* a registered device or in devices_kset; and a device_unregister() that
\* leaves other holders does not release the device.
C26_Release ==
    /\ [](\A d \in Dev :
            /\ reg[d] = "released" <=> (reg[d] # "none" /\ kref[d] = 0)
            /\ InStructure(d) => (Alive(d) /\ kref[d] >= 1))
    /\ [][\A d \in Dev :
            /\ reg[d] = "released" => reg'[d] = "released"
            /\ (reg[d] # "released" /\ reg'[d] = "released") =>
                (kref[d] >= 1 /\ kref'[d] = 0 /\ Holders(d)' = 0)
            /\ (last'.op = "device_unregister" /\ last'.dev = d
                    /\ Holders(d)' > 0) => reg'[d] = "deleted"]_vars

\* C26 witness: a device that was registered under a parent and then
\* unregistered is released by the device_link_del() of its last link.
C26_Witness ==
    /\ last.op = "device_link_del"
    /\ \E d \in {last.dev, last.sup} :
        /\ reg[d] = "released"
        /\ parent[d] # NoDev

\* ------------------------------------------------------------------------
\* Locking
\* ------------------------------------------------------------------------
\* The step is taken by thread t.
StepOf(t) == pc'[t] # pc[t]

\* The step changes a list of links, a list of children or the ordering
\* list.
Mutation ==
    \/ consumers' # consumers
    \/ suppliers' # suppliers
    \/ children' # children
    \/ kset' # kset

\* C27: every step of a thread that changes a list of links, a list of
\* children or the ordering list is taken while that thread holds
\* device_links_lock as a writer.
C27_MutationUnderGraphLock ==
    [][\A t \in Thread : StepOf(t) /\ Mutation => links_lock = t]_vars

\* Thread t runs the statements of op between its lock and unlock calls.
BodyStep(t, op) == StepOf(t) /\ pc[t].op = op /\ Step(t) = "body"

\* C28 as stated: device_link_add(), device_link_del() and
\* device_links_busy() each run their statements while the thread holds
\* both device_links_lock as a writer and dpm_list_mtx.
C28_PowerLockWithGraphLock ==
    [][\A t \in Thread :
        \A op \in {"device_link_add", "device_link_del", "device_links_busy"} :
            BodyStep(t, op) => links_lock = t /\ pm_lock = t]_vars

\* C28, amended: device_link_add() and device_link_del() run their
\* statements while the thread holds both device_links_lock as a writer and
\* dpm_list_mtx, so no thread that holds dpm_list_mtx takes a step in
\* between; device_links_busy() runs its statements holding
\* device_links_lock alone.
C28_PowerLockAddDel ==
    [][\A t \in Thread :
        /\ \A op \in {"device_link_add", "device_link_del"} :
              BodyStep(t, op) =>
                /\ links_lock = t /\ pm_lock = t
                /\ links_lock' = t /\ pm_lock' = t
        /\ BodyStep(t, "device_links_busy") =>
                /\ links_lock = t /\ pm_lock # t
                /\ links_lock' = t]_vars

\* device_link_del() has deleted a link and still holds both locks while a
\* device_move() of another thread waits for dpm_list_mtx.
C28_Witness ==
    \E t \in Thread, u \in Thread :
        /\ pc[t].op = "device_link_del"
        /\ Step(t) = "pm_unlock"
        /\ last.op = "device_link_del"
        /\ links_lock = t
        /\ pm_lock = t
        /\ pc[u].op = "device_move"
        /\ Step(u) = "pm_lock"

\* Thread t cannot take its next step before thread u releases a lock.
Blocked(t, u) ==
    /\ t # u
    /\ \/ Step(t) = "write_lock" /\ links_lock = u
       \/ Step(t) = "write_lock" /\ ~CONFIG_SRCU /\ u \in readers
       \/ Step(t) = "read_lock" /\ ~CONFIG_SRCU /\ links_lock = u
       \/ Step(t) = "pm_lock" /\ pm_lock = u

\* A set of threads each of which waits for another one of the set.
Deadlocked(S) == \A t \in S : \E u \in S : Blocked(t, u)

\* C29: no thread takes device_links_lock while it holds dpm_list_mtx, a
\* thread that holds both releases dpm_list_mtx first, and no set of
\* threads is ever waiting for each other's locks.
C29_LockOrder ==
    /\ [](\A S \in SUBSET Thread : S # {} => ~Deadlocked(S))
    /\ [][\A t \in Thread :
            /\ links_lock # t /\ links_lock' = t => pm_lock # t /\ pm_lock' # t
            /\ links_lock = t /\ links_lock' # t => pm_lock # t]_vars

\* device_link_add() holds device_links_lock and waits for dpm_list_mtx,
\* which a device_move() holds.
C29_Witness ==
    \E t \in Thread, u \in Thread :
        /\ pc[t].op = "device_link_add"
        /\ links_lock = t
        /\ Blocked(t, u)
        /\ pc[u].op = "device_move"
        /\ pm_lock = u

\* C30: a link that was on the lists when a read-side section began is not
\* freed, and the references it holds to its two devices are not dropped,
\* as long as that section is in progress, whether or not the link has been
\* deleted in between.
C30_DeferredFree ==
    \A t \in readers : \A i \in pc[t].seen :
        /\ link[i].status # "FREE"
        /\ Alive(link[i].consumer) /\ kref[link[i].consumer] >= 1
        /\ Alive(link[i].supplier) /\ kref[link[i].supplier] >= 1
        /\ ~Linked(i) => srcu[i].queued /\ t \in srcu[i].wait

\* A link was deleted during a read-side section that is still in
\* progress: the deleting thread has released both locks and returned, the
\* free is queued.
C30_Witness ==
    \E t \in readers : \E i \in pc[t].seen :
        /\ ~Linked(i)
        /\ link[i].status # "FREE"
        /\ srcu[i].queued
        /\ last.op = "device_link_del"
        /\ links_lock = NoThread
        /\ pm_lock = NoThread
        /\ \A u \in Thread \ {t} : pc[u] = Idle

\* ------------------------------------------------------------------------
\* Meaning of the link states
\* ------------------------------------------------------------------------
\* C33: a link in AVAILABLE has a supplier whose links.status is
\* DRIVER_BOUND.
C33_AvailableMeansSupplierBound ==
    \A i \in LiveLinks :
        link[i].status = DL_STATE_AVAILABLE =>
            dlstatus[link[i].supplier] = DL_DEV_DRIVER_BOUND

\* links.status of a device whose driver is bound, or bound and on its way
\* out.
HasDriver(d) == dlstatus[d] \in {DL_DEV_DRIVER_BOUND, DL_DEV_UNBINDING}

\* C34: a link in ACTIVE has both its supplier and its consumer with a
\* driver bound (DRIVER_BOUND, or UNBINDING while the unbind is under way).
C34_ActiveMeansBothBound ==
    \A i \in LiveLinks :
        link[i].status = DL_STATE_ACTIVE =>
            HasDriver(link[i].supplier) /\ HasDriver(link[i].consumer)

\* C35: whenever device_links_driver_bound() runs for a device, every link
\* of the device to a consumer that is not stateless is DORMANT and every
\* link to a supplier that is not stateless is CONSUMER_PROBE: neither
\* WARN_ON fires.
C35_DriverBoundAssertions ==
    [][\A d \in Dev :
        Called("device_links_driver_bound", d) =>
            /\ \A i \in Stateful(consumers[d]) : link[i].status = DL_STATE_DORMANT
            /\ \A i \in Stateful(suppliers[d]) :
                    link[i].status = DL_STATE_CONSUMER_PROBE]_vars

\* C36: when device_unregister() of a device whose driver was unbound purges
\* the links, no link of the device to a supplier is ACTIVE and every link
\* to a consumer is DORMANT or NONE (neither WARN_ON of
\* device_links_purge() fires), and every link of the device is deleted.
C36_PurgeAssertions ==
    [][\A d \in Dev :
        Called("device_unregister", d) =>
            /\ \A i \in Range(suppliers[d]) : link[i].status # DL_STATE_ACTIVE
            /\ \A i \in Range(consumers[d]) :
                    link[i].status \in {DL_STATE_DORMANT, DL_STATE_NONE}
            /\ \A i \in Range(suppliers[d]) \cup Range(consumers[d]) :
                    link'[i].status = "FREE"]_vars

\* ------------------------------------------------------------------------
\* Ordering list: frame, moves and shutdown
\* ------------------------------------------------------------------------
\* A call of device_link_add() that created a link.
LinkCreated == last'.op = "device_link_add" /\ nlinks' = nlinks + 1

\* The registered devices among c and the devices that depend on it.
MovedBy(c) == {d \in Dependents(c) : device_is_registered(d)}

\* The entries of s outside M, in the order of s.
Without(s, M) == SelectSeq(s, LAMBDA x : x \notin M)

\* C40: a device_link_add(consumer, supplier) that creates a link moves
\* exactly the registered devices among consumer and its dependents to the
\* tail of devices_kset: the other devices keep their order and come before
\* every moved one, and when consumer is not yet registered the list is
\* unchanged.
C40_ReorderFrame ==
    [][LinkCreated =>
        LET M == MovedBy(last'.dev)
        IN  /\ Range(kset') = Range(kset)
            /\ Len(kset') = Len(kset)
            /\ Without(kset', M) = Without(kset, M)
            /\ SubSeq(kset', 1, Len(kset) - Cardinality(M)) = Without(kset, M)
            /\ reg[last'.dev] = "init" => kset' = kset]_vars

\* C40 witness: a link was created whose consumer has a registered child;
\* the supplier, a root, is first in devices_kset and the consumer and its
\* child are the tail.
C40_Witness ==
    /\ last.op = "device_link_add"
    /\ last.ret # NoLinkId
    /\ link[last.ret].consumer = last.dev
    /\ link[last.ret].supplier = last.sup
    /\ parent[last.sup] = NoDev
    /\ \E ch \in Range(children[last.dev]) : kset = <<last.sup, last.dev, ch>>

\* The devices below d in the tree: its children, their children and so on.
RECURSIVE Below(_, _)
Below(S, n) ==
    IF n = 0 THEN S
    ELSE Below(S \cup {e[2] : e \in {x \in ChildEdges : x[1] \in S}}, n - 1)

\* device_move() of any registered device, in any order, under no parent or
\* under any registered device that is not below it in the tree (the new
\* parent may be a consumer of the device).
Move ==
    \E d \in Dev, p \in Dev \cup {NoDev}, o \in DpmOrders :
        /\ p \notin Below({d}, NDev)
        /\ device_move(d, p, o, FALSE)
        /\ UNCHANGED <<bind, checked, sync>>

\* Devices registered as roots and then moved, linked and unregistered,
\* one call at a time.
NextMove ==
    \/ Initialize
    \/ AddRoot
    \/ Unregister
    \/ Move
    \/ LinkAddPlain
    \/ LinkDel

SpecMove == Init /\ [][NextMove]_vars

\* C32: in every state reached by registrations, unregistrations, moves,
\* link additions and link deletions, the links together with the
\* containment tree are acyclic.
C32_AcyclicWithMove == Acyclic

\* A successful device_move() with one of the three orders that move
\* something.
Moved ==
    /\ last'.op = "device_move"
    /\ last'.ret = 0
    /\ last'.order \in {DPM_ORDER_DEV_AFTER_PARENT, DPM_ORDER_PARENT_BEFORE_DEV,
                        DPM_ORDER_DEV_LAST}

\* C38: a successful device_move(dev, new_parent, order) with order
\* DEV_AFTER_PARENT, PARENT_BEFORE_DEV or DEV_LAST, made when every parent
\* precedes its children and every supplier its consumers in devices_kset
\* and leaving no cycle, ends with every parent before its children (the
\* new parent before dev, dev before its own children) and every supplier
\* before its consumers.
C38_MoveKeepsOrder ==
    [][C2_Ordering /\ Moved /\ Acyclic' => C2_Ordering']_vars

\* ------------------------------------------------------------------------
\* device_shutdown()
\* ------------------------------------------------------------------------
\* The entry that list_entry(devices_kset->list.next, ...) would give: the
\* head of the list.
shutdown_next_from_head(ks) == Head(ks)

\* list_entry(devices_kset->list.prev, ...): the tail of the list.
shutdown_next(ks) == ks[Len(ks)]

\* device_shutdown() up to the loop: probing is over and blocked.
device_shutdown_start ==
    /\ shut.state = "off"
    /\ shut' = [shut EXCEPT !.state = "loop"]
    /\ UNCHANGED <<graph, bind, checked, last, links_lock, pm_lock, pc,
                   readers, srcu, CONFIG_SRCU>>

\* One pass of the loop up to spin_unlock(): the device at the tail and its
\* parent are referenced and the device is taken off the list.
device_shutdown_take ==
    /\ shut.state = "loop"
    /\ kset # <<>>
    /\ LET dev == shutdown_next(kset)
       IN  /\ kref' = get_device(get_device(kref, parent[dev]), dev)
           /\ kset' = SeqRemove(kset, dev)
           /\ shut' = [shut EXCEPT !.state = "call", !.dev = dev,
                                   !.parent = parent[dev]]
    /\ UNCHANGED <<reg, parent, children, dlstatus, consumers, suppliers,
                   link, nlinks, bind, checked, last, links_lock, pm_lock,
                   pc, readers, srcu, CONFIG_SRCU>>

\* The rest of the pass: the shutdown callbacks of the device run, then
\* put_device(dev) and put_device(parent).
device_shutdown_call ==
    /\ shut.state = "call"
    /\ LET k == put_device(put_device(kref, shut.dev), shut.parent)
       IN  /\ kref' = k
           /\ reg' = device_release(reg, k)
    /\ shut' = [shut EXCEPT !.state = "loop", !.dev = NoDev, !.parent = NoDev,
                            !.order = Append(@, shut.dev)]
    /\ UNCHANGED <<parent, children, dlstatus, consumers, suppliers, link,
                   kset, nlinks, bind, checked, last, links_lock, pm_lock,
                   pc, readers, srcu, CONFIG_SRCU>>

\* list_empty(&devices_kset->list): the loop ends.
device_shutdown_end ==
    /\ shut.state = "loop"
    /\ kset = <<>>
    /\ shut' = [shut EXCEPT !.state = "done"]
    /\ UNCHANGED <<graph, bind, checked, last, links_lock, pm_lock, pc,
                   readers, srcu, CONFIG_SRCU>>

\* Registrations and links are made before the system shuts down.
InitializeUp == shut.state = "off" /\ Initialize
AddUp == shut.state = "off" /\ Add
LinkAddUp == shut.state = "off" /\ LinkAddPlain

\* Devices are registered and linked, then device_shutdown() runs;
\* devices may be unregistered at any time, during the shutdown too.
NextShutdown ==
    \/ InitializeUp
    \/ AddUp
    \/ LinkAddUp
    \/ Unregister
    \/ device_shutdown_start
    \/ device_shutdown_take
    \/ device_shutdown_call
    \/ device_shutdown_end

\* device_shutdown() does not stop between two of its steps.
FairShutdown ==
    /\ WF_vars(device_shutdown_take)
    /\ WF_vars(device_shutdown_call)
    /\ WF_vars(device_shutdown_end)

SpecShutdown == Init /\ [][NextShutdown]_vars /\ FairShutdown

\* The devices that depend directly on d: its children and the consumers of
\* its links.
DirectDependents(d) ==
    {e[2] : e \in {c \in ChildEdges : c[1] = d}}
        \cup {link[i].consumer : i \in {j \in LiveLinks : link[j].supplier = d}}

\* The devices whose shutdown callbacks have been started.
ShutDown == Range(shut.order) \cup ({shut.dev} \ {NoDev})

\* C31: device_shutdown() takes the device at the tail of the Ordering List,
\* one at a time, and removes it from the list before its callbacks run; no
\* device is shut down twice; the list is ordered when the shutdown starts and
\* then no device is shut down while a child or a consumer of it is still on
\* the list, so every consumer is shut down before its suppliers and every
\* child before its parent; the loop ends, and it ends with an empty list.
C31_ShutdownOrder ==
    /\ [](/\ shut.state = "off" => C2_Ordering
          /\ \A i, j \in 1..Len(shut.order) :
                shut.order[i] = shut.order[j] => i = j
          /\ shut.state = "call" =>
                shut.dev \notin Range(kset) \cup Range(shut.order)
          /\ \A d \in ShutDown : DirectDependents(d) \cap Range(kset) = {}
          /\ shut.state = "done" => kset = <<>>)
    /\ [][shut.state = "loop" /\ shut'.state = "call" =>
            /\ shut'.dev = kset[Len(kset)]
            /\ kset' = SubSeq(kset, 1, Len(kset) - 1)]_vars
    /\ (shut.state = "loop" ~> (shut.state = "done" /\ kset = <<>>))

\* Three devices were shut down: a child, then its parent, which is a
\* consumer, then the supplier.
C31_Witness ==
    /\ shut.state = "done"
    /\ Len(shut.order) = 3
    /\ parent[shut.order[1]] = shut.order[2]
    /\ \E i \in LiveLinks :
        link[i].consumer = shut.order[2] /\ link[i].supplier = shut.order[3]

\* ------------------------------------------------------------------------
\* The driver core's calls with device_links_lock taken step by step
\* ------------------------------------------------------------------------
\* In this part the holder of device_links_lock is named by the device whose
\* call took it: device_links_check_suppliers(d), device_links_driver_bound(d),
\* device_links_no_driver(d), device_links_busy(d),
\* device_links_unbind_consumers(d) or device_links_driver_cleanup(d).

\* The holder of the lock after a pass of device_links_unbind_consumers()
\* that keeps it while it waits for probes or removes a consumer's driver.
unbind_consumers_unlock_when_done(dev, ret) == IF ret = 0 THEN NoThread ELSE dev

\* The holder of the lock after a pass of device_links_unbind_consumers():
\* device_links_write_unlock() comes before wait_for_device_probe(), before
\* device_release_driver_internal() and at the end of the walk.
unbind_consumers_unlock(dev, ret) == NoThread

\* The next step of the call on dev starts with device_links_write_lock().
TakesWriteLock(dev) ==
    \/ drv[dev] \in {"probing", "uc_start", "releasing"}
    \/ drv[dev] = "none" /\ reg[dev] = "added" /\ nprobes < MaxProbes
    \/ drv[dev] = "bound"

\* device_links_write_lock() at the start of one of the calls.
LinksWriteLock ==
    \E d \in Dev :
        /\ TakesWriteLock(d)
        /\ links_lock = NoThread
        /\ links_lock' = d
        /\ UNCHANGED <<graph, bind, checked, last, pm_lock, pc, readers,
                       srcu, CONFIG_SRCU, shut>>

\* The rest of a call that ends with device_links_write_unlock().
Unlocking(dev) ==
    /\ links_lock = dev
    /\ links_lock' = NoThread
    /\ UNCHANGED <<pm_lock, pc, readers, srcu, CONFIG_SRCU, shut>>

ProbeHeld == \E d \in Dev : really_probe(d) /\ Unlocking(d)
BoundHeld == \E d \in Dev : driver_bound(d) /\ Unlocking(d)
ProbeFailedHeld == \E d \in Dev : probe_failed(d) /\ Unlocking(d)
ReleaseHeld == \E d \in Dev : release_driver(d) /\ Unlocking(d)
ReleaseDoneHeld == \E d \in Dev : release_done(d) /\ Unlocking(d)

\* One pass of device_links_unbind_consumers() with the lock held.
UnbindConsumersHeld ==
    \E d \in Dev :
        /\ links_lock = d
        /\ unbind_consumers(d)
        /\ links_lock' = unbind_consumers_unlock(d, last'.ret)
        /\ UNCHANGED <<pm_lock, pc, readers, srcu, CONFIG_SRCU, shut>>

\* device_link_add(), device_link_del() and device_unregister() take the
\* lock and release it in one step.
LinkAddFree == links_lock = NoThread /\ LinkAdd
LinkDelFree == links_lock = NoThread /\ LinkDel
UnregisterFree == links_lock = NoThread /\ Unregister

NextUnbind ==
    \/ InitializeFair
    \/ AddRoot
    \/ UnregisterFree
    \/ LinkAddFree
    \/ LinkDelFree
    \/ LinksWriteLock
    \/ ProbeHeld
    \/ BoundHeld
    \/ ProbeFailedHeld
    \/ ReleaseHeld
    \/ UnbindConsumersHeld
    \/ UnbindWaitDone
    \/ UnbindReleaseDone
    \/ ReleaseDoneHeld

SpecUnbind == Init /\ [][NextUnbind]_vars

\* The call on device d cannot go on before the call on device e has: d is
\* about to take device_links_lock, which e holds; or d waits in
\* wait_for_device_probe() for the probe of e; or d waits for
\* device_release_driver_internal() to remove the driver of e.
WaitsFor(d, e) ==
    \/ /\ d # e
       /\ links_lock = e
       /\ \/ drv[d] \in {"probing", "uc_start", "releasing"}
          \/ \E s \in Dev : drv[s] = "uc_release" /\ ucons[s] = d /\ drv[d] = "bound"
    \/ drv[d] = "uc_wait" /\ drv[e] = "probing"
    \/ drv[d] = "uc_release" /\ ucons[d] = e /\ drv[e] # "none"

\* A set of calls each of which waits for another one of the set.
Stuck(S) == \A d \in S : \E e \in S : WaitsFor(d, e)

\* C39: device_links_unbind_consumers() does not hold device_links_lock
\* while it waits for the probes in flight or while the driver of an ACTIVE
\* consumer is removed, it takes a reference to that consumer before it
\* drops the lock and holds it until the removal has returned, and no set of
\* calls ever waits for each other.
C39_UnbindDropsLock ==
    /\ [](/\ \A d \in Dev :
                drv[d] \in {"uc_wait", "uc_release", "uc_released"}
                    => links_lock # d
          /\ \A d \in Dev :
                drv[d] \in {"uc_release", "uc_released"}
                    => /\ kref[ucons[d]] >= UnbindRefs(ucons[d])
                       /\ reg[ucons[d]] # "released"
          /\ \A S \in SUBSET Dev : S # {} => ~Stuck(S))
    /\ [][\A d \in Dev :
            /\ drv[d] = "uc_start" /\ drv'[d] = "uc_release"
                => /\ \E i \in Range(consumers[d]) :
                        /\ link[i].consumer = ucons'[d]
                        /\ link[i].status = DL_STATE_ACTIVE
                   /\ kref'[ucons'[d]] = kref[ucons'[d]] + 1
                   /\ links_lock = d /\ links_lock' = NoThread
            /\ drv[d] = "uc_start" /\ drv'[d] = "uc_wait"
                => links_lock = d /\ links_lock' = NoThread
            /\ drv[d] \in {"uc_release", "uc_released"} /\ drv'[d] = "uc_start"
                => kref'[ucons[d]] = kref[ucons[d]] - 1]_vars

\* device_links_unbind_consumers() has dropped the lock and waits for the
\* removal of the driver of a consumer, and that removal holds the lock.
C39_Witness ==
    \E d \in Dev :
        /\ drv[d] = "uc_release"
        /\ links_lock = ucons[d]
        /\ drv[ucons[d]] \in {"bound", "releasing"}

\* ------------------------------------------------------------------------
\* device_add() step by step next to device_link_add()
\* ------------------------------------------------------------------------
\* Three devices are registered, as roots in one step or step by step under
\* a parent, and device_link_add() is called between the steps.
NextRace ==
    \/ Initialize
    \/ AddRoot
    \/ AddKobject
    \/ AddPm
    \/ AddChildren
    \/ LinkAddPlain

SpecRace == Init /\ [][NextRace]_vars

\* C37: when device_add() of a device and device_link_add() calls have both
\* returned, whatever the order of their steps, the parent of the device
\* comes before the device in devices_kset (the parent does not depend on
\* the device through links).
C37_ParentFirstAfterRace ==
    \A d \in Dev :
        /\ reg[d] = "added"
        /\ parent[d] # NoDev
        /\ reg[parent[d]] = "added"
        /\ parent[d] \notin Dependents(d)
        => Pos(parent[d]) < Pos(d)
====
